---- MODULE Spec2Model ----
(***************************************************************************)
(* A model of the tool-calling dispatch loop of agent-langchain-project    *)
(* (src/tool_dispatcher.py): run_with_tools, its directive parser          *)
(* _parse_tool_call and its time-query short circuit.                      *)
(*                                                                         *)
(* Texts are modelled at token level: a text is a sequence of lines, a     *)
(* line is a sequence of tokens (strings).  The model (llm_callable) and   *)
(* the tools (tool.func) are collaborators: each of their calls returns or *)
(* raises nondeterministically, and every call is recorded in `trace`.     *)
(*                                                                         *)
(* The long-term memory store (src/agent_langchain_project/memory.py) is   *)
(* modelled with its files and with the two threads that use it: the       *)
(* session loop (save_persona, src/tools.py) and the background save       *)
(* (auto_save_turn, memory_utils.py).  A record is written as the number   *)
(* of the add call that brought it.                                        *)
(***************************************************************************)
EXTENDS Integers, Sequences, FiniteSets, TLC

\* ------------------------------------------------------------------ bounds

\* Largest max_tool_calls value a turn is started with.
MaxRounds == 2

\* ------------------------------------------------------- program constants

\* str(tool_result)[:1000]: the cut applied to a tool result (log summary).
ResultSummaryLimit == 1000

\* ------------------------------------------------------------------ tokens

NL == "<NL>"

\* Case variants of the keywords that re.IGNORECASE accepts.
LineKeywords == {"CALL_TOOL:", "call_tool:"}
JsonKeywords == {"CALL_TOOL_JSON:", "call_tool_json:"}

\* Tokens made of [A-Za-z0-9_]+ only.
NameTokens == {"Foo", "foo", "Bar", "hello", "world"}

\* Keys of a JSON object, and the empty JSON string.
JsonKeys == {"tool:", "name:", "args:", "arguments:"}
EmptyString == ""
JsonValues == NameTokens \cup {EmptyString}

Min(a, b) == IF a < b THEN a ELSE b

SetMin(S) == CHOOSE x \in S : \A y \in S : x <= y
SetMax(S) == CHOOSE x \in S : \A y \in S : y <= x

\* A text as one token stream, lines separated by NL.
RECURSIVE Flatten(_)
Flatten(text) ==
    IF Len(text) = 0 THEN << >>
    ELSE IF Len(text) = 1 THEN text[1]
    ELSE text[1] \o <<NL>> \o Flatten(Tail(text))

\* ---------------------------------------------------------------- parser

NoCall == [found |-> FALSE, name |-> "", args |-> << >>]
Call(n, a) == [found |-> TRUE, name |-> n, args |-> a]

\* _TOOL_CALL_JSON_RE.search(text): the keyword, optional white space
\* (line breaks included), then "{" up to the LAST "}" of the text (greedy,
\* DOTALL).  The positions at which the pattern can start:
JsonStarts(f) ==
    {i \in 1..Len(f) :
        /\ f[i] \in JsonKeywords
        /\ \E j \in (i+1)..Len(f) :
              /\ f[j] = "{"
              /\ \A m \in (i+1)..(j-1) : f[m] = NL
              /\ \E k \in (j+1)..Len(f) : f[k] = "}"}

\* mjson.group(1) of the first match.
JsonGroup(f) ==
    LET i == SetMin(JsonStarts(f))
        j == SetMin({m \in (i+1)..Len(f) : f[m] # NL})
        k == SetMax({m \in (j+1)..Len(f) : f[m] = "}"})
    IN  SubSeq(f, j, k)

\* json.loads accepts the group: one object of key/value pairs.
JsonWellFormed(g) ==
    LET b == SelectSeq(g, LAMBDA t : t # NL)
    IN  /\ Len(b) >= 2
        /\ b[1] = "{"
        /\ b[Len(b)] = "}"
        /\ Len(b) % 2 = 0
        /\ \A p \in 2..(Len(b)-1) :
              IF p % 2 = 0 THEN b[p] \in JsonKeys ELSE b[p] \in JsonValues

\* payload.get(key): the value of the last pair with that key, or the
\* empty string when absent (both are falsy for the `or` chains).
JsonGet(g, key) ==
    LET b == SelectSeq(g, LAMBDA t : t # NL)
        at == {p \in 2..(Len(b)-1) : p % 2 = 0 /\ b[p] = key}
    IN  IF at = {} THEN EmptyString ELSE b[SetMax(at) + 1]

Or(a, b) == IF a # EmptyString THEN a ELSE b

\* The JSON branch of _parse_tool_call: a call, or NoCall when there is no
\* match, the payload does not decode, or it has no usable name.
ParseJsonForm(text) ==
    LET f == Flatten(text)
    IN  IF JsonStarts(f) = {} THEN NoCall
        ELSE LET g == JsonGroup(f)
             IN  IF ~JsonWellFormed(g) THEN NoCall
                 ELSE LET name == Or(JsonGet(g, "tool:"), JsonGet(g, "name:"))
                          args == Or(JsonGet(g, "args:"), JsonGet(g, "arguments:"))
                      IN  IF name = EmptyString THEN NoCall
                          ELSE Call(name, IF args = EmptyString THEN << >> ELSE <<args>>)

\* _TOOL_CALL_RE.match(line) on a stripped line.
LineMatches(line) ==
    /\ Len(line) >= 2
    /\ line[1] \in LineKeywords
    /\ line[2] \in NameTokens

\* The line branch: the first matching line wins.
ParseLineForm(text) ==
    LET hits == {i \in 1..Len(text) : LineMatches(text[i])}
    IN  IF hits = {} THEN NoCall
        ELSE LET line == text[SetMin(hits)]
             IN  Call(line[2], SubSeq(line, 3, Len(line)))

_parse_tool_call(text) ==
    IF Flatten(text) = << >> THEN NoCall
    ELSE LET mjson == ParseJsonForm(text)
         IN  IF mjson.found THEN mjson ELSE ParseLineForm(text)

\* ------------------------------------------------------------ time query

\* The phrasings _TIME_QUERY_RE recognises, one token each (transliterated).
TimePhrases ==
    {"jinnian_shi_nanian", "jinnian_shi_na_yi_nian", "xianzai_shi_nanian",
     "xianzai_shi_shenme_nian", "dangqian_nianfen", "xianzai_shi_na_yi_nian"}

\* _TIME_QUERY_RE.search(user_prompt or ""): a phrasing anywhere in the prompt.
MatchesTimeQuery(prompt) == \E i \in 1..Len(prompt) : prompt[i] \in TimePhrases

NoResult == [kind |-> "none", text |-> << >>, year |-> 0]
YearAnswer(y) == [kind |-> "year", text |-> << >>, year |-> y]
Returned(r) == [kind |-> "response", text |-> r, year |-> 0]
LlmFailure == [kind |-> "llm_failed", text |-> << >>, year |-> 0]
LlmFailureFinal == [kind |-> "llm_failed_final", text |-> << >>, year |-> 0]
Propagated == [kind |-> "raised", text |-> << >>, year |-> 0]

\* Variant: the pattern is anchored at the start of the prompt (re.match).
AnswerTimeAnchored(prompt, year) ==
    IF Len(prompt) > 0 /\ prompt[1] \in TimePhrases THEN YearAnswer(year)
    ELSE NoResult

\* Variant: the pattern also matches the empty string, so every prompt.
AnswerTimeAlways(prompt, year) == YearAnswer(year)

\* _answer_time_shortcircuit: the answer from the local clock, or NoResult
\* (None) when the prompt is no time query.
_answer_time_shortcircuit(prompt, year) ==
    IF MatchesTimeQuery(prompt) THEN YearAnswer(year) ELSE NoResult

\* ---------------------------------------------------------------- context

Seg(kind, name, args, text, len) ==
    [kind |-> kind, name |-> name, args |-> args, text |-> text, len |-> len]

\* inject_persona_to_system as the module defines it when prompt_inject is
\* absent: x or "".
inject_persona_to_system(x) == x

\* Step 2 of run_with_tools: the system prompt, when not empty, then the
\* user prompt.
InitialContext(sp, up) ==
    (IF inject_persona_to_system(sp) # << >>
        THEN <<Seg("system", "", << >>, <<inject_persona_to_system(sp)>>, 0)>>
        ELSE << >>)
    \o <<Seg("user", "", << >>, <<up>>, 0)>>

\* Variant: the error block names no tool and drops the response.
UnknownToolContextNoName(ctx, tool_name, resp) ==
    Append(ctx, Seg("ToolError", "", << >>, << >>, 0))

\* context += "[ToolError] ... {tool_name} ... {response} ..."
UnknownToolContext(ctx, tool_name, resp) ==
    Append(ctx, Seg("ToolError", tool_name, << >>, resp, 0))

\* The text of a tool's outcome as it is formatted: the result itself, or
\* the 7-character exception prefix followed by the exception's message.
ExceptionPrefixLen == 7
ToolResult(o) ==
    IF o.raised THEN [kind |-> "exception", len |-> ExceptionPrefixLen + o.len]
    ELSE [kind |-> "result", len |-> o.len]

\* result_summary of the tool.invoke.success log event: str(tool_result)[:1000].
ResultSummary(o) == Min(ToolResult(o).len, ResultSummaryLimit)

\* The number of characters of the tool result that the observation embeds:
\* {tool_result} is formatted in whole.
EmbeddedResultLen(o) == ToolResult(o).len

\* Variant: the context is started afresh from the observation.
ObservationContextFresh(ctx, resp, tool_name, tool_args, o) ==
    <<Seg("response", "", << >>, resp, 0),
      Seg("ToolInvocation", tool_name, tool_args,
          <<<<ToolResult(o).kind>>>>, EmbeddedResultLen(o)),
      Seg("continue", "", << >>, << >>, 0)>>

\* context += response.strip() + observation, then the instruction to go on.
ObservationContext(ctx, resp, tool_name, tool_args, o) ==
    ctx \o <<Seg("response", "", << >>, resp, 0),
             Seg("ToolInvocation", tool_name, tool_args,
                 <<<<ToolResult(o).kind>>>>, EmbeddedResultLen(o)),
             Seg("continue", "", << >>, << >>, 0)>>

\* Variant: the final call is made on the bare context.
FinalInputNoNotice(ctx) == ctx

\* The input of the forced final call: the context and the limit notice.
FinalInput(ctx) == Append(ctx, Seg("limit", "", << >>, << >>, 0))

\* range(max_tool_calls + 1): the number of rounds of the loop.
RoundCount(n) == n + 1

\* ------------------------------------------------------------------ inputs

ToolNames == {"Foo", "Bar"}
Registries == {{"Foo", "Bar"}, {"Foo"}}

Prompts ==
    {<<"hello">>,
     <<"hello", "jinnian_shi_nanian">>,
     <<"xianzai_shi_shenme_nian", "world">>}

SystemPrompts == {<< >>, <<"sys">>}

Years == {2026, 2027}

RPlain == << <<"hello", "world">> >>
RLineFoo == << <<"CALL_TOOL:", "Foo", "hello", "world">> >>
RLineAfterText == << <<"hello">>, <<"call_tool:", "Bar">> >>
RUnknown == << <<"CALL_TOOL:", "foo", "hello">> >>
RJsonFoo == << <<"CALL_TOOL_JSON:", "{", "tool:", "Foo", "args:", "hello", "}">> >>
RJsonBad == << <<"CALL_TOOL_JSON:", "{", "tool:", "Foo", "args:", "}">> >>
RJsonUnknown == << <<"CALL_TOOL_JSON:", "{">>, <<"name:", "world", "}">> >>
REmpty == << >>

\* What the model may answer.
Responses ==
    {RPlain, RLineFoo, RLineAfterText, RUnknown, RJsonFoo, RJsonBad,
     RJsonUnknown, REmpty}

\* tc = _parse_tool_call(response), for each response the model may give.
ParsedResponses == [r \in Responses |-> _parse_tool_call(r)]
Directive(r) == ParsedResponses[r]

\* What a tool call may do: return a result of some length, or raise.
ResultLens == {0, 3 * ResultSummaryLimit}
ToolOutcomes ==
    {[raised |-> FALSE, len |-> n] : n \in ResultLens}
    \cup {[raised |-> TRUE, len |-> 0]}

\* ------------------------------------------------------------------- state

VARIABLES
    pc,             \* position in run_with_tools: start, loop, tool, done
                    \* (parse, parsed: the parser alone; store: the store)
    user_prompt,    \* argument
    system_prompt,  \* argument
    max_tool_calls, \* argument
    tools,          \* argument: the registered names (name2tool's keys)
    now_year,       \* datetime.now().year as the short circuit read it
    context,        \* the transcript of the turn
    call_idx,       \* the loop variable
    response,       \* the response whose directive is being dispatched
    tc,             \* (tool_name, tool_args) being dispatched
    trace,          \* every call made to llm_callable and to a tool, in order
    result          \* what run_with_tools returned

\* The long-term memory store, its files and the threads that use it.
VARIABLES
    backend,        \* what make_long_memory returned: "json" or "faiss"
    mode,           \* AGENT_AUTO_SAVE as the process read it (AUTO_SAVE_MODE)
    max_items,      \* AGENT_MAX_MEMORY_ITEMS as the process read it
    texts,          \* self.texts
    metadatas,      \* self.metadatas
    ntotal,         \* number of vectors of self.index (faiss backend)
    index,          \* the vectors of self.index in the order added: the id
                    \* each was given and the add call whose text it embeds
    path_file,      \* the file at self.path (json) or self._meta_path (faiss)
    idx_file,       \* the file at self._idx_path (faiss)
    thread,         \* per thread: the operation it runs and where it is in it
    n_adds,         \* add calls made so far, over all processes
    restarted,      \* whether the process is a restart, the store made by __init__
                    \* over the files an earlier process left
    last            \* the operation that returned last, and what it returned

\* The session driver, the worker pool and the page fetch.
VARIABLES
    driver,         \* the interactive loop: which loop, where it is, the
                    \* number of the interaction, the request id of its context
    pool,           \* EXECUTOR: the tasks waiting and the tasks on a worker
    wrote,          \* the memory record written last, or NoRecord
    fetch           \* a call of the page-fetch tool: arguments, position,
                    \* attempts made, result

dispatch_vars == <<pc, user_prompt, system_prompt, max_tool_calls, tools,
                   now_year, context, call_idx, response, tc, trace, result>>

store_vars == <<backend, mode, max_items, texts, metadatas, ntotal, index, path_file,
                idx_file, thread, n_adds, restarted, last>>

session_vars == <<driver, pool, wrote>>

vars == <<dispatch_vars, store_vars, session_vars, fetch>>

args == <<user_prompt, system_prompt, max_tool_calls, tools>>

LlmEvent(input, raised, out) ==
    [op |-> "llm", input |-> input, raised |-> raised, out |-> out,
     name |-> "", args |-> << >>, len |-> 0]

\* A tool call; len is what the tool.invoke.success log event keeps of the
\* result.
ToolEvent(name, targs, o) ==
    [op |-> "tool", input |-> << >>, raised |-> o.raised, out |-> << >>,
     name |-> name, args |-> targs,
     len |-> IF o.raised THEN 0 ELSE ResultSummary(o)]

\* A file: absent, complete (a whole dump of texts and metadatas, or a whole
\* index of n vectors), or partial (some prefix of the bytes of a write).
NoFile == [state |-> "absent", texts |-> << >>, metadatas |-> << >>, n |-> 0,
           ids |-> << >>]
PartialFile == [state |-> "partial", texts |-> << >>, metadatas |-> << >>, n |-> 0,
                ids |-> << >>]
DumpFile(tx, ms) == [state |-> "complete", texts |-> tx, metadatas |-> ms, n |-> 0,
                     ids |-> << >>]
IndexFile(n) == [state |-> "complete", texts |-> << >>, metadatas |-> << >>, n |-> n,
                 ids |-> << >>]

\* A vector of the index: the id it was added with (add_with_ids, line 139)
\* and the add call whose text it embeds.
Vector(id, call) == [id |-> id, call |-> call]

Threads == {"main", "worker"}

\* The session loop (main) and the executor thread of the background save
\* (worker). A thread that runs no operation of the store:
\* call is the number of the add call a background save makes.
IdleThread == [op |-> "idle", at |-> "idle", idx |-> -1, tmp |-> NoFile, call |-> 0]

\* What an operation returned: idx is an index or -1 for None, persisted
\* what persist() answered, hits the result of a search, query and k what
\* the search was asked.
Return(op, idx, persisted, hits) ==
    [op |-> op, idx |-> idx, persisted |-> persisted, raised |-> FALSE,
     hits |-> hits, query |-> << >>, k |-> 0]

NoReturn == Return("none", -1, FALSE, << >>)

\* The state of the store while the dispatch loop alone is looked at.
StoreUnused ==
    /\ backend = "json"
    /\ mode = "always"
    /\ max_items = 0
    /\ texts = << >>
    /\ metadatas = << >>
    /\ ntotal = 0
    /\ index = << >>
    /\ path_file = NoFile
    /\ idx_file = NoFile
    /\ thread = [t \in Threads |-> IdleThread]
    /\ n_adds = 0
    /\ restarted = FALSE
    /\ last = NoReturn

\* No request id: the default of the context variable, None.
NoRequestId == 0

NoRecord ==
    [turn |-> 0, type |-> "none", request_id |-> NoRequestId, late |-> FALSE]

\* No session is running.
SessionUnused ==
    /\ driver = [loop |-> "none", at |-> "idle", turn |-> 0,
                 request_id |-> NoRequestId, call |-> "none",
                 invoked |-> << >>, appended |-> 0]
    /\ pool = [queue |-> << >>, running |-> {}]
    /\ wrote = NoRecord

\* A result dict of the page fetch; attempts is -1 when the dict has no such
\* key.
FetchResult(source, error, attempts) ==
    [source |-> source, error |-> error, attempts |-> attempts]

NoFetchResult == FetchResult("none", "none", -1)

\* No page is being fetched.
FetchUnused ==
    fetch = [at |-> "idle", via |-> "none", url |-> "none", timeout |-> 0,
             max_retries |-> 0, attempts |-> 0, last_err |-> "none",
             renders |-> << >>, gets |-> 0, result |-> NoFetchResult]

Init ==
    /\ StoreUnused
    /\ SessionUnused
    /\ FetchUnused
    /\ pc = "start"
    /\ user_prompt \in Prompts
    /\ system_prompt \in SystemPrompts
    /\ max_tool_calls \in 0..MaxRounds
    /\ tools \in Registries
    /\ now_year = 0
    /\ context = << >>
    /\ call_idx = 0
    /\ response = << >>
    /\ tc = NoCall
    /\ trace = << >>
    /\ result = NoResult

\* -------------------------------------------------------------- operations

\* Lines 84-87: the time query is answered from the clock.
ShortCircuit ==
    /\ pc = "start"
    /\ \E y \in Years :
          /\ _answer_time_shortcircuit(user_prompt, y) # NoResult
          /\ now_year' = y
          /\ result' = _answer_time_shortcircuit(user_prompt, y)
    /\ pc' = "done"
    /\ UNCHANGED <<store_vars, session_vars, fetch, args, context, call_idx, response, tc, trace>>

\* Lines 90-95: the initial context.
AssembleContext ==
    /\ pc = "start"
    /\ \A y \in Years : _answer_time_shortcircuit(user_prompt, y) = NoResult
    /\ context' = InitialContext(system_prompt, user_prompt)
    /\ call_idx' = 0
    /\ pc' = "loop"
    /\ UNCHANGED <<store_vars, session_vars, fetch, args, now_year, response, tc, trace, result>>

\* Variant: a failed model call is retried on the next round.
RoundModelRaisesRetry ==
    /\ trace' = Append(trace, LlmEvent(context, TRUE, << >>))
    /\ call_idx' = call_idx + 1
    /\ pc' = "loop"
    /\ UNCHANGED <<store_vars, session_vars, fetch, args, now_year, context, response, tc, result>>

\* Lines 111-113: llm_callable raises in a round.
RoundModelRaises ==
    /\ trace' = Append(trace, LlmEvent(context, TRUE, << >>))
    /\ result' = LlmFailure
    /\ pc' = "done"
    /\ UNCHANGED <<store_vars, session_vars, fetch, args, now_year, context, call_idx, response, tc>>

\* Lines 115-117: no directive, the response is the answer.
RoundFinalAnswer(r) ==
    /\ ~Directive(r).found
    /\ trace' = Append(trace, LlmEvent(context, FALSE, r))
    /\ result' = Returned(r)
    /\ pc' = "done"
    /\ UNCHANGED <<store_vars, session_vars, fetch, args, now_year, context, call_idx, response, tc>>

\* Variant: an unknown tool does not consume a round.
RoundUnknownToolNoProgress(r) ==
    /\ Directive(r).found
    /\ Directive(r).name \notin tools
    /\ trace' = Append(trace, LlmEvent(context, FALSE, r))
    /\ context' = UnknownToolContext(context, Directive(r).name, r)
    /\ pc' = "loop"
    /\ UNCHANGED <<store_vars, session_vars, fetch, args, now_year, call_idx, response, tc, result>>

\* Lines 119-124: a directive for a name that is not registered.
RoundUnknownTool(r) ==
    /\ Directive(r).found
    /\ Directive(r).name \notin tools
    /\ trace' = Append(trace, LlmEvent(context, FALSE, r))
    /\ context' = UnknownToolContext(context, Directive(r).name, r)
    /\ call_idx' = call_idx + 1
    /\ pc' = "loop"
    /\ UNCHANGED <<store_vars, session_vars, fetch, args, now_year, response, tc, result>>

\* Variant: the registry is searched without regard to letter case.
RoundKnownToolFuzzy(r) ==
    LET SameLetters == {<<"Foo", "Foo">>, <<"Foo", "foo">>,
                        <<"Bar", "Bar">>, <<"Bar", "bar">>}
    IN  /\ Directive(r).found
        /\ \E t \in tools :
              /\ <<t, Directive(r).name>> \in SameLetters
              /\ tc' = [Directive(r) EXCEPT !.name = t]
        /\ trace' = Append(trace, LlmEvent(context, FALSE, r))
        /\ response' = r
        /\ pc' = "tool"
        /\ UNCHANGED <<store_vars, session_vars, fetch, args, now_year, context, call_idx, result>>

\* Lines 119-126: a directive for a registered tool, about to be invoked.
RoundKnownTool(r) ==
    /\ Directive(r).found
    /\ Directive(r).name \in tools
    /\ trace' = Append(trace, LlmEvent(context, FALSE, r))
    /\ response' = r
    /\ tc' = Directive(r)
    /\ pc' = "tool"
    /\ UNCHANGED <<store_vars, session_vars, fetch, args, now_year, context, call_idx, result>>

\* Lines 107-126: one round's model call and the dispatch of its response.
RoundModelCall ==
    /\ pc = "loop"
    /\ call_idx < RoundCount(max_tool_calls)
    /\ \/ RoundModelRaises
       \/ \E r \in Responses :
            \/ RoundFinalAnswer(r)
            \/ RoundUnknownTool(r)
            \/ RoundKnownTool(r)

\* Lines 133-140 and 151-156: the tool returned.
ToolReturned(o) ==
    /\ trace' = Append(trace, ToolEvent(tc.name, tc.args, o))
    /\ context' = ObservationContext(context, response, tc.name, tc.args, o)
    /\ call_idx' = call_idx + 1
    /\ pc' = "loop"
    /\ UNCHANGED <<store_vars, session_vars, fetch, args, now_year, response, tc, result>>

\* Variant: the tool's exception is not caught.
ToolRaisedPropagates(o) ==
    /\ trace' = Append(trace, ToolEvent(tc.name, tc.args, o))
    /\ result' = Propagated
    /\ pc' = "done"
    /\ UNCHANGED <<store_vars, session_vars, fetch, args, now_year, context, call_idx, response, tc>>

\* Lines 141-156: the tool raised; the exception becomes the observation.
ToolRaised(o) ==
    /\ trace' = Append(trace, ToolEvent(tc.name, tc.args, o))
    /\ context' = ObservationContext(context, response, tc.name, tc.args, o)
    /\ call_idx' = call_idx + 1
    /\ pc' = "loop"
    /\ UNCHANGED <<store_vars, session_vars, fetch, args, now_year, response, tc, result>>

\* Lines 126-156: tool.func(tool_args) and the observation appended.
ToolInvoke ==
    /\ pc = "tool"
    /\ \E o \in ToolOutcomes :
          IF o.raised THEN ToolRaised(o) ELSE ToolReturned(o)

\* Lines 158-163: the forced final call after the loop ran out.
FinalReturn(input, raised, r) ==
    /\ trace' = Append(trace, LlmEvent(input, raised, r))
    /\ result' = IF raised THEN LlmFailureFinal ELSE Returned(r)
    /\ pc' = "done"
    /\ UNCHANGED <<store_vars, session_vars, fetch, args, now_year, context, call_idx, response, tc>>

FinalModelCall ==
    /\ pc = "loop"
    /\ ~(call_idx < RoundCount(max_tool_calls))
    /\ \/ FinalReturn(FinalInput(context), TRUE, << >>)
       \/ \E r \in Responses : FinalReturn(FinalInput(context), FALSE, r)

Next ==
    \/ ShortCircuit
    \/ AssembleContext
    \/ RoundModelCall
    \/ ToolInvoke
    \/ FinalModelCall

Spec == Init /\ [][Next]_vars

\* The loop is sequential code: whenever a step is possible it is taken
\* (every collaborator call returns or raises).
FairSpec == Spec /\ WF_vars(Next)

\* ------------------------------------------- calls that do not return

\* llm_callable(context) is called directly (lines 109 and 159) and
\* tool.func(tool_args) too (line 133): call_timeout_sec is accepted and
\* never used, so a call that does not return leaves the loop inside it.
ModelCallHangs ==
    /\ pc = "loop"
    /\ pc' = "waiting_llm"
    /\ UNCHANGED <<store_vars, session_vars, fetch, args, now_year, context, call_idx, response, tc, trace, result>>

ToolCallHangs ==
    /\ pc = "tool"
    /\ pc' = "waiting_tool"
    /\ UNCHANGED <<store_vars, session_vars, fetch, args, now_year, context, call_idx, response, tc, trace, result>>

DeadlineNext ==
    \/ ShortCircuit
    \/ AssembleContext
    \/ RoundModelCall
    \/ ToolInvoke
    \/ FinalModelCall
    \/ ModelCallHangs
    \/ ToolCallHangs

\* The dispatch loop with collaborators that may also never return.
DeadlineSpec == Init /\ [][DeadlineNext]_vars

\* ------------------------------------------------------ the parser alone

\* Largest number of lines of a parsed text.
MaxLines == 2

ParserLines ==
    {<<"hello">>,
     <<"hello", "}">>,
     <<"CALL_TOOL:", "Foo", "hello", "world">>,
     <<"call_tool:", "Bar">>,
     <<"CALL_TOOL:", "Bar", "}">>,
     <<"CALL_TOOL_JSON:", "{", "tool:", "Foo", "args:", "hello", "}">>,
     <<"call_tool_json:", "{", "name:", "Bar", "arguments:", "world", "}">>,
     <<"CALL_TOOL_JSON:", "{">>,
     <<"tool:", "Foo", "}">>,
     <<"CALL_TOOL_JSON:", "{", "tool:", "}">>}

ParserTexts == UNION {[1..n -> ParserLines] : n \in 0..MaxLines}

ParserInit ==
    /\ StoreUnused
    /\ SessionUnused
    /\ FetchUnused
    /\ pc = "parse"
    /\ response \in ParserTexts
    /\ tc = NoCall
    /\ user_prompt = << >>
    /\ system_prompt = << >>
    /\ max_tool_calls = 0
    /\ tools = ToolNames
    /\ now_year = 0
    /\ context = << >>
    /\ call_idx = 0
    /\ trace = << >>
    /\ result = NoResult

\* tc = _parse_tool_call(response) (line 115).
ParseResponse ==
    /\ pc = "parse"
    /\ tc' = _parse_tool_call(response)
    /\ pc' = "parsed"
    /\ UNCHANGED <<store_vars, session_vars, fetch, args, now_year, context, call_idx, response, trace, result>>

\* The next round's response arrives; tc still holds the last directive.
NextResponse ==
    /\ pc = "parsed"
    /\ response' \in ParserTexts
    /\ pc' = "parse"
    /\ UNCHANGED <<store_vars, session_vars, fetch, args, now_year, context, call_idx, tc, trace, result>>

ParserNext ==
    \/ ParseResponse
    \/ NextResponse

ParserSpec == ParserInit /\ [][ParserNext]_vars

\* ------------------------------------------------------ the memory store

\* Largest AGENT_MAX_MEMORY_ITEMS looked at, and the number of add calls.
MaxItems == 2
MaxAdds == 3

\* The meta argument of add: None, an empty dict, or a dict with entries.
MetaInputs == {"none", "empty", "given"}

\* meta or {"timestamp": time.time()} (line 38), for the add call number id:
\* the text of call id is written id. A dict that is given is written by its
\* type entry: persona (save_persona), turn (auto_save_turn), or given.
Meta(id, meta) ==
    [call |-> id, kind |-> IF meta \in {"none", "empty"} THEN "default" ELSE meta]

Added(tx, ms, idx) == [texts |-> tx, metadatas |-> ms, idx |-> idx]

\* Variant: the oldest metadata is kept when the oldest text is removed.
JsonAddKeepsMeta(tx, ms, mx, id, meta) ==
    LET full == Len(tx) >= mx /\ tx # << >>
        tx1 == IF full THEN Tail(tx) ELSE tx
    IN  Added(Append(tx1, id), Append(ms, Meta(id, meta)), Len(tx1))

\* Variant: the index is read before the oldest record is removed.
JsonAddIndexFirst(tx, ms, mx, id, meta) ==
    LET full == Len(tx) >= mx /\ tx # << >>
        tx1 == IF full THEN Tail(tx) ELSE tx
        ms1 == IF full /\ ms # << >> THEN Tail(ms) ELSE ms
    IN  Added(Append(tx1, id), Append(ms1, Meta(id, meta)), Len(tx))

\* Variant: a record is removed only once the store is over its maximum.
JsonAddLateEvict(tx, ms, mx, id, meta) ==
    LET full == Len(tx) > mx /\ tx # << >>
        tx1 == IF full THEN Tail(tx) ELSE tx
        ms1 == IF full /\ ms # << >> THEN Tail(ms) ELSE ms
    IN  Added(Append(tx1, id), Append(ms1, Meta(id, meta)), Len(tx1))

\* JsonMemoryFallback.add, lines 27-43: at most one pop(0) of each list,
\* an exception of either pop (an empty list) swallowed.
JsonMemoryFallback_add(tx, ms, mx, id, meta) ==
    LET full == Len(tx) >= mx /\ tx # << >>
        tx1 == IF full THEN Tail(tx) ELSE tx
        ms1 == IF full /\ ms # << >> THEN Tail(ms) ELSE ms
    IN  Added(Append(tx1, id), Append(ms1, Meta(id, meta)), Len(tx1))

\* FaissMemorySimple.add, lines 135-149: nothing is removed.
FaissMemorySimple_add(tx, ms, id, meta) ==
    Added(Append(tx, id), Append(ms, Meta(id, meta)), Len(tx))

\* MAX_MEMORY_ITEMS reads the same environment variable as max_items.
MAX_MEMORY_ITEMS == max_items

\* trim_memory_if_needed, lines 78-86: pops until the store fits, stopped by
\* the exception of a pop from an empty list.
RECURSIVE trim_memory_if_needed(_, _, _)
trim_memory_if_needed(tx, ms, mx) ==
    IF Len(tx) > mx /\ tx # << >>
       THEN IF ms = << >>
               THEN Added(Tail(tx), ms, -1)
               ELSE trim_memory_if_needed(Tail(tx), Tail(ms), mx)
       ELSE Added(tx, ms, -1)

\* Variant: the lists read are cut to the configured maximum.
LoadTrimmed(file) ==
    IF file.state = "complete"
       THEN trim_memory_if_needed(file.texts, file.metadatas, max_items')
       ELSE Added(<< >>, << >>, -1)

\* __init__, lines 18-25 and 113-126: what a new store object reads from a
\* file; a file that cannot be read leaves it empty.
Load(file) ==
    IF file.state = "complete"
       THEN Added(file.texts, file.metadatas, -1)
       ELSE Added(<< >>, << >>, -1)

\* The first step of persist().
FirstStep == IF backend = "faiss" THEN "write_index" ELSE "mkstemp"

\* search's default k (line 45).
DefaultK == 5

StoreInit ==
    /\ SessionUnused
    /\ FetchUnused
    /\ pc = "store"
    /\ user_prompt = << >>
    /\ system_prompt = << >>
    /\ max_tool_calls = 0
    /\ tools = {}
    /\ now_year = 0
    /\ context = << >>
    /\ call_idx = 0
    /\ response = << >>
    /\ tc = NoCall
    /\ trace = << >>
    /\ result = NoResult
    /\ backend = "json"
    /\ mode = "always"
    /\ max_items \in 0..MaxItems
    /\ texts = << >>
    /\ metadatas = << >>
    /\ ntotal = 0
    /\ index = << >>
    /\ path_file = NoFile
    /\ idx_file = NoFile
    /\ thread = [t \in Threads |-> IdleThread]
    /\ n_adds = 0
    /\ restarted = FALSE
    /\ last = NoReturn

\* mem.add(text, meta) called by thread t: the lists change and the call
\* returns a.idx.
AddCall(t, meta) ==
    LET id == n_adds + 1
        a == IF backend = "json"
                THEN JsonMemoryFallback_add(texts, metadatas, max_items, id, meta)
                ELSE FaissMemorySimple_add(texts, metadatas, id, meta)
    IN  /\ n_adds < MaxAdds
        /\ texts' = a.texts
        /\ metadatas' = a.metadatas
        /\ ntotal' = IF backend = "faiss" THEN ntotal + 1 ELSE ntotal
        /\ index' = IF backend = "faiss"
                       THEN Append(index, Vector(a.idx, id))
                       ELSE index
        /\ n_adds' = id
        /\ last' = Return("add", a.idx, FALSE, << >>)

\* A direct add call. The program itself adds through save_persona and
\* auto_save_turn only; direct calls of add, search and info are made in
\* single-threaded use, no other operation of the store under way.
Add(t) ==
    /\ \A u \in Threads : thread[u].op = "idle"
    /\ \E meta \in MetaInputs : AddCall(t, meta)
    /\ UNCHANGED <<dispatch_vars, session_vars, fetch, backend, mode, max_items, path_file, idx_file,
                   thread, restarted>>

\* JsonMemoryFallback.search, lines 45-56: the first k records that match;
\* q is the set of add calls whose text or metadata the query matches.
Search(t) ==
    /\ backend = "json"
    /\ \A u \in Threads : thread[u].op = "idle"
    /\ texts # << >>
    /\ \E q \in {{n_adds}, 1..n_adds}, k \in {1, DefaultK} :
          LET n == IF Len(texts) <= Len(metadatas) THEN Len(texts) ELSE Len(metadatas)
              res == SelectSeq(SubSeq(texts, 1, n), LAMBDA x : x \in q)
          IN  last' = Return("search", -1, FALSE, SubSeq(res, 1, Min(k, Len(res))))
    /\ UNCHANGED <<dispatch_vars, session_vars, fetch, backend, mode, max_items, texts, metadatas, ntotal, index,
                   path_file, idx_file, thread, n_adds, restarted>>

\* info, lines 80-81: n_vectors.
Info(t) ==
    /\ \A u \in Threads : thread[u].op = "idle"
    /\ last' = Return("info", Len(texts), FALSE, << >>)
    /\ UNCHANGED <<dispatch_vars, session_vars, fetch, backend, mode, max_items, texts, metadatas, ntotal, index,
                   path_file, idx_file, thread, n_adds, restarted>>

\* Thread t moves to step at of the operation it runs.
Goto(t, at) == thread' = [thread EXCEPT ![t].at = at]

\* A direct persist() call.
BeginPersist(t) ==
    /\ thread[t].op = "idle"
    /\ thread' = [thread EXCEPT ![t] = [IdleThread EXCEPT !.op = "persist", !.at = FirstStep]]
    /\ UNCHANGED <<dispatch_vars, session_vars, fetch, backend, mode, max_items, texts, metadatas, ntotal, index,
                   path_file, idx_file, n_adds, restarted, last>>

\* save_persona, src/tools.py lines 72-76: the record is added.
SavePersonaAdd(t) ==
    /\ thread[t].op = "idle"
    /\ AddCall(t, "persona")
    /\ thread' = [thread EXCEPT ![t] =
                    [IdleThread EXCEPT !.op = "save_persona", !.at = FirstStep,
                                       !.idx = last'.idx]]
    /\ UNCHANGED <<dispatch_vars, session_vars, fetch, backend, mode, max_items, path_file, idx_file,
                   restarted>>

\* auto_save_turn, memory_utils.py lines 93-96: nothing worth saving.
AutoSaveSkip(t) ==
    /\ thread[t].op = "idle"
    /\ last' = Return("auto_save_turn", -1, FALSE, << >>)
    /\ UNCHANGED <<dispatch_vars, session_vars, fetch, backend, mode, max_items, texts, metadatas, ntotal, index,
                   path_file, idx_file, thread, n_adds, restarted>>

\* auto_save_turn, line 115: the turn is added.
AutoSaveAdd(t) ==
    /\ thread[t].op = "idle"
    /\ AddCall(t, "turn")
    /\ thread' = [thread EXCEPT ![t] =
                    [IdleThread EXCEPT !.op = "auto_save_turn", !.at = "trim",
                                       !.idx = last'.idx]]
    /\ UNCHANGED <<dispatch_vars, session_vars, fetch, backend, mode, max_items, path_file, idx_file,
                   restarted>>

\* auto_save_turn, lines 117-120.
AutoSaveTrim(t) ==
    /\ thread[t].at = "trim"
    /\ LET a == trim_memory_if_needed(texts, metadatas, MAX_MEMORY_ITEMS)
       IN  texts' = a.texts /\ metadatas' = a.metadatas
    /\ Goto(t, FirstStep)
    /\ UNCHANGED <<dispatch_vars, session_vars, fetch, backend, mode, max_items, ntotal, index, path_file,
                   idx_file, n_adds, restarted, last>>

\* FaissMemorySimple.persist, line 168: faiss.write_index opens the index
\* file itself for writing, or fails to (the exception is swallowed).
WriteIndexOpen(t) ==
    /\ thread[t].at = "write_index"
    /\ \/ idx_file' = PartialFile /\ Goto(t, "index_writing")
       \/ idx_file' = idx_file /\ Goto(t, "mkstemp")
    /\ UNCHANGED <<dispatch_vars, session_vars, fetch, backend, mode, max_items, texts, metadatas, ntotal, index,
                   path_file, n_adds, restarted, last>>

\* Lines 168-170: the index is written out, or the write fails on the way
\* (the exception is swallowed).
WriteIndexClose(t) ==
    /\ thread[t].at = "index_writing"
    /\ idx_file' \in {[IndexFile(ntotal) EXCEPT !.ids = index], PartialFile}
    /\ Goto(t, "mkstemp")
    /\ UNCHANGED <<dispatch_vars, session_vars, fetch, backend, mode, max_items, texts, metadatas, ntotal, index,
                   path_file, n_adds, restarted, last>>

\* persist, lines 60-64 (171-174): the directory is made if missing, then
\* a new, empty temporary file next to the target.
Mkstemp(t) ==
    /\ thread[t].at = "mkstemp"
    /\ thread' = [thread EXCEPT ![t].at = "write", ![t].tmp = PartialFile]
    /\ UNCHANGED <<dispatch_vars, session_vars, fetch, backend, mode, max_items, texts, metadatas, ntotal, index,
                   path_file, idx_file, n_adds, restarted, last>>

\* Lines 65-66 (175-176): the lists are dumped to the temporary file.
WriteTmp(t) ==
    /\ thread[t].at = "write"
    /\ thread' = [thread EXCEPT ![t].at = "replace",
                                ![t].tmp = DumpFile(texts, metadatas)]
    /\ UNCHANGED <<dispatch_vars, session_vars, fetch, backend, mode, max_items, texts, metadatas, ntotal, index,
                   path_file, idx_file, n_adds, restarted, last>>

\* Variant: the operation reports the store as persisted, whatever persist
\* answered.
ReturnsPersisted(t, ok) == Return(thread[t].op, thread[t].idx, TRUE, << >>)

\* persist returned ok to the operation of thread t, which returns in turn:
\* persist() itself the boolean, save_persona the index and the boolean
\* (src/tools.py line 113), auto_save_turn the index, whatever the boolean
\* (memory_utils.py lines 121-126).
Returns(t, ok) == Return(thread[t].op, thread[t].idx, ok, << >>)

\* Lines 67-75 (177-184): os.replace puts the temporary file at the target
\* and persist returns True.
Replace(t) ==
    /\ thread[t].at = "replace"
    /\ path_file' = thread[t].tmp
    /\ thread' = [thread EXCEPT ![t] = IdleThread]
    /\ last' = Returns(t, TRUE)
    /\ UNCHANGED <<dispatch_vars, session_vars, fetch, backend, mode, max_items, texts, metadatas, ntotal, index,
                   idx_file, n_adds, restarted>>

\* Variant: the dump is written to the target itself, so a failed dump
\* leaves the target half written.
PersistFailsInPlace(t) ==
    /\ thread[t].at \in {"mkstemp", "write", "replace"}
    /\ path_file' = IF thread[t].at = "write" THEN PartialFile ELSE path_file
    /\ thread' = [thread EXCEPT ![t] = IdleThread]
    /\ last' = Returns(t, FALSE)
    /\ UNCHANGED <<dispatch_vars, session_vars, fetch, backend, mode, max_items, texts, metadatas, ntotal, index,
                   idx_file, n_adds, restarted>>

\* Lines 76-78 (185-187): a step of persist raised; persist logs and returns
\* False, leaving behind whatever temporary file it had made.
PersistFails(t) ==
    /\ thread[t].at \in {"mkstemp", "write", "replace"}
    /\ thread' = [thread EXCEPT ![t] = IdleThread]
    /\ last' = Returns(t, FALSE)
    /\ UNCHANGED <<dispatch_vars, session_vars, fetch, backend, mode, max_items, texts, metadatas, ntotal, index,
                   path_file, idx_file, n_adds, restarted>>

\* The process stops, wherever its threads are, and a new one constructs the
\* store from the files (init_long_memory).
Restart ==
    /\ restarted' = TRUE
    /\ max_items' \in 0..MaxItems
    /\ texts' = Load(path_file).texts
    /\ metadatas' = Load(path_file).metadatas
    /\ ntotal' = IF backend = "faiss" /\ idx_file.state = "complete"
                    THEN idx_file.n ELSE 0
    /\ index' = IF backend = "faiss" /\ idx_file.state = "complete"
                   THEN idx_file.ids ELSE << >>
    /\ thread' = [t \in Threads |-> IdleThread]
    /\ last' = NoReturn
    /\ UNCHANGED <<dispatch_vars, session_vars, fetch, backend, mode, path_file, idx_file, n_adds>>

StoreNext ==
    \/ Add("main")
    \/ Search("main")
    \/ Info("main")
    \/ BeginPersist("main")
    \/ SavePersonaAdd("main")
    \/ AutoSaveSkip("worker")
    \/ AutoSaveAdd("worker")
    \/ AutoSaveTrim("worker")
    \/ \E t \in Threads : Mkstemp(t)
    \/ \E t \in Threads : WriteTmp(t)
    \/ \E t \in Threads : Replace(t)
    \/ \E t \in Threads : PersistFails(t)
    \/ Restart

\* The store, when the imports of make_long_memory fail (lines 88-94).
StoreSpec == StoreInit /\ [][StoreNext]_vars

\* The store, when faiss and sentence_transformers are there: the same
\* process starting with no file, its store a FaissMemorySimple.
FaissInit ==
    /\ SessionUnused
    /\ FetchUnused
    /\ pc = "store"
    /\ user_prompt = << >>
    /\ system_prompt = << >>
    /\ max_tool_calls = 0
    /\ tools = {}
    /\ now_year = 0
    /\ context = << >>
    /\ call_idx = 0
    /\ response = << >>
    /\ tc = NoCall
    /\ trace = << >>
    /\ result = NoResult
    /\ backend = "faiss"
    /\ mode = "always"
    /\ max_items \in 0..MaxItems
    /\ texts = << >>
    /\ metadatas = << >>
    /\ ntotal = 0
    /\ index = << >>
    /\ path_file = NoFile
    /\ idx_file = NoFile
    /\ thread = [t \in Threads |-> IdleThread]
    /\ n_adds = 0
    /\ restarted = FALSE
    /\ last = NoReturn

FaissNext ==
    \/ BeginPersist("main")
    \/ SavePersonaAdd("main")
    \/ AutoSaveAdd("worker")
    \/ AutoSaveTrim("worker")
    \/ \E t \in Threads : WriteIndexOpen(t)
    \/ \E t \in Threads : WriteIndexClose(t)
    \/ \E t \in Threads : Mkstemp(t)
    \/ \E t \in Threads : WriteTmp(t)
    \/ \E t \in Threads : Replace(t)
    \/ \E t \in Threads : PersistFails(t)
    \/ Restart

FaissSpec == FaissInit /\ [][FaissNext]_vars

\* ----------------------------------------- the substring search alone

\* Largest number of records of a store that is searched.
MaxRecords == 2

\* Strings are sequences of letters here; str.lower() letter by letter.
LowerChar ==
    [ch \in {"c", "a", "t", "s", "d", "o", "g", "C", "A", "T"} |->
        CASE ch = "C" -> "c" [] ch = "A" -> "a" [] ch = "T" -> "t" [] OTHER -> ch]

Lower(str) == [i \in 1..Len(str) |-> LowerChar[str[i]]]

\* sub in str.
Contains(sub, str) ==
    \E i \in 0..(Len(str) - Len(sub)) : SubSeq(str, i + 1, i + Len(sub)) = sub

SearchTexts ==
    {<<"c", "a", "t">>, <<"a", "C", "A", "T", "s">>, <<"a", "c", "t">>, << >>}

\* A metadata dict, written as the sequence of str(v) of its values.
SearchMetas == {<< >>, <<<<"d", "o", "g">>>>, <<<<"a", "c", "t">>, <<"C", "a", "t">>>>}

SearchQueries ==
    {<<"c", "a", "t">>, <<"A", "T">>, <<"d", "o", "g">>, <<"c", "a", "t", "s">>, << >>}

Hit(text, meta) == [text |-> text, meta |-> meta, score |-> 1]

\* The loop of search, lines 48-55: over zip(texts, metadatas), a record is
\* appended to res when ql is in t.lower() or in str(v).lower() for a value v
\* of its metadata.
RECURSIVE search_loop(_, _, _, _)
search_loop(tx, ms, ql, res) ==
    IF tx = << >> \/ ms = << >> THEN res
    ELSE LET t == Head(tx)
             m == Head(ms)
             found ==
                 \/ Contains(ql, Lower(t))
                 \/ \E v \in 1..Len(m) : Contains(ql, Lower(m[v]))
         IN  search_loop(Tail(tx), Tail(ms), ql,
                         IF found THEN Append(res, Hit(t, m)) ELSE res)

\* Variant: the query is compared as it was written.
SearchQueryAsWritten(tx, ms, query, k) ==
    LET res == search_loop(tx, ms, query, << >>)
    IN  SubSeq(res, 1, Min(k, Len(res)))

\* JsonMemoryFallback.search, lines 45-56: ql = query.lower(), the loop, then
\* res[:k], for a k that is not negative.
search(tx, ms, query, k) ==
    LET res == search_loop(tx, ms, Lower(query), << >>)
    IN  SubSeq(res, 1, Min(k, Len(res)))

\* The dispatcher's variables while another part of the program is looked at.
DispatcherUnused(at) ==
    /\ pc = at
    /\ user_prompt = << >>
    /\ system_prompt = << >>
    /\ max_tool_calls = 0
    /\ tools = {}
    /\ now_year = 0
    /\ context = << >>
    /\ call_idx = 0
    /\ response = << >>
    /\ tc = NoCall
    /\ trace = << >>
    /\ result = NoResult

\* A substring store holding any records whatever.
SearchInit ==
    /\ DispatcherUnused("search")
    /\ SessionUnused
    /\ FetchUnused
    /\ backend = "json"
    /\ mode = "always"
    /\ max_items = MaxRecords
    /\ \E n \in 0..MaxRecords :
          /\ texts \in [1..n -> SearchTexts]
          /\ metadatas \in [1..n -> SearchMetas]
    /\ ntotal = 0
    /\ index = << >>
    /\ path_file = NoFile
    /\ idx_file = NoFile
    /\ thread = [t \in Threads |-> IdleThread]
    /\ n_adds = 0
    /\ restarted = FALSE
    /\ last = NoReturn

\* mem.search(query, k) (cli.py line 164, src/tools.py line 172).
SearchCall ==
    /\ \E query \in SearchQueries, k \in {0, 1, DefaultK} :
          last' = [Return("search", -1, FALSE, search(texts, metadatas, query, k))
                      EXCEPT !.query = query, !.k = k]
    /\ UNCHANGED <<dispatch_vars, session_vars, fetch, backend, mode, max_items, texts, metadatas, ntotal, index,
                   path_file, idx_file, thread, n_adds, restarted>>

SearchNext == SearchCall

SearchSpec == SearchInit /\ [][SearchNext]_vars

\* ------------------------------------- the session and the worker pool

\* Largest number of interactions of a session.
MaxTurns == 5

\* ThreadPoolExecutor(max_workers=4).
MaxWorkers == 4

Loops == {"cli", "runner_agent", "runner_llm"}

\* The request id new_request_id() makes for interaction number turn.
RequestId(turn) == turn

\* A task of the pool: the interaction that submitted it, the request id it
\* was handed as an argument, and the request id its context holds.
Task(kind, turn, request_id, ctx) ==
    [kind |-> kind, turn |-> turn, request_id |-> request_id, ctx |-> ctx]

\* A memory record: the interaction whose text it holds, its type, the
\* request id in its metadata, and whether the driver was in a later
\* interaction when it was written.
Record(turn, type, request_id) ==
    [turn |-> turn, type |-> type, request_id |-> request_id,
     late |-> driver.turn > turn]

\* The task whose future the driver waits for in call_with_timeout.
Awaited(task) ==
    /\ driver.at = "waiting"
    /\ task.kind = driver.call
    /\ task.turn = driver.turn

Without(queue, task) == SelectSeq(queue, LAMBDA x : x # task)

SessionInit ==
    /\ DispatcherUnused("session")
    /\ StoreUnused
    /\ FetchUnused
    /\ \E loop \in Loops :
          driver = [loop |-> loop, at |-> "input", turn |-> 0,
                    request_id |-> NoRequestId, call |-> "none",
                    invoked |-> << >>, appended |-> 0]
    /\ pool = [queue |-> << >>, running |-> {}]
    /\ wrote = NoRecord

\* input() gave a line: rid = new_request_id() sets the id in the context of
\* the main thread.
NewInteraction ==
    /\ driver.at = "input"
    /\ driver.turn < MaxTurns
    /\ driver' = [driver EXCEPT !.at = "turn", !.turn = @ + 1,
                                !.request_id = RequestId(driver.turn + 1),
                                !.invoked = << >>, !.appended = 0]
    /\ UNCHANGED <<dispatch_vars, store_vars, pool, wrote, fetch>>

\* /save_persona and /save of the runner: the tool runs in the main thread
\* and the loop continues with the next input.
SlashSave ==
    /\ driver.loop \in {"runner_agent", "runner_llm"}
    /\ driver.at = "turn"
    /\ \E type \in {"persona", "note"} :
          /\ wrote' = Record(driver.turn, type, driver.request_id)
          /\ driver' = [driver EXCEPT
                           !.at = "input",
                           !.invoked = Append(@, IF type = "persona"
                                                 THEN "SavePersona" ELSE "SaveMemory")]
    /\ UNCHANGED <<dispatch_vars, store_vars, pool, fetch>>

\* Variant: the command is kept in short_history like any other input.
SlashQueryKept ==
    /\ driver.loop \in {"runner_agent", "runner_llm"}
    /\ driver.at = "turn"
    /\ \E tool \in {"ListPersonas", "RecallMemory", "PersistMemory", "LoadMemory"} :
          driver' = [driver EXCEPT !.at = "input", !.invoked = Append(@, tool),
                                  !.appended = 1]
    /\ UNCHANGED <<dispatch_vars, store_vars, pool, wrote, fetch>>

\* /list_personas, /recall, /persist and /load of the runner: the tool runs
\* in the main thread, writes no record, and the loop continues with the
\* next input.
SlashQuery ==
    /\ driver.loop \in {"runner_agent", "runner_llm"}
    /\ driver.at = "turn"
    /\ \E tool \in {"ListPersonas", "RecallMemory", "PersistMemory", "LoadMemory"} :
          driver' = [driver EXCEPT !.at = "input", !.invoked = Append(@, tool)]
    /\ UNCHANGED <<dispatch_vars, store_vars, pool, wrote, fetch>>

\* cli: the input names a persona, save_persona_tool.func runs in the main
\* thread.
CliPersonaAutosave ==
    /\ driver.loop = "cli"
    /\ driver.at = "turn"
    /\ wrote' = Record(driver.turn, "persona", driver.request_id)
    /\ driver' = [driver EXCEPT !.at = "run"]
    /\ UNCHANGED <<dispatch_vars, store_vars, pool, fetch>>

CliNoPersona ==
    /\ driver.loop = "cli"
    /\ driver.at = "turn"
    /\ driver' = [driver EXCEPT !.at = "run"]
    /\ UNCHANGED <<dispatch_vars, store_vars, pool, wrote, fetch>>

\* cli: run_with_tools (or agent.run) invokes SavePersona or SaveMemory in
\* the main thread.
CliToolSaves ==
    /\ driver.loop = "cli"
    /\ driver.at = "run"
    /\ \E type \in {"persona", "note"} :
          wrote' = Record(driver.turn, type, driver.request_id)
    /\ UNCHANGED <<dispatch_vars, store_vars, driver, pool, fetch>>

\* cli: the answer is printed.
CliAnswer ==
    /\ driver.loop = "cli"
    /\ driver.at = "run"
    /\ driver' = [driver EXCEPT !.at = "answered"]
    /\ UNCHANGED <<dispatch_vars, store_vars, pool, wrote, fetch>>

\* runner: the input is appended to short_history, then
\* call_with_timeout(agent_runner or llm._call): EXECUTOR.submit(func)
\* hands the task neither a request id nor a context, then fut.result waits.
RunnerSubmitCall ==
    /\ driver.loop \in {"runner_agent", "runner_llm"}
    /\ driver.at = "turn"
    /\ LET kind == IF driver.loop = "runner_agent" THEN "agent" ELSE "llm"
       IN  /\ driver' = [driver EXCEPT !.at = "waiting", !.call = kind,
                                       !.appended = 1]
           /\ pool' = [pool EXCEPT !.queue =
                          Append(@, Task(kind, driver.turn, NoRequestId, NoRequestId))]
    /\ UNCHANGED <<dispatch_vars, store_vars, wrote, fetch>>

\* A free worker takes the oldest waiting task.
StartTask ==
    /\ pool.queue # << >>
    /\ Cardinality(pool.running) < MaxWorkers
    /\ pool' = [queue |-> Tail(pool.queue),
                running |-> pool.running \cup {Head(pool.queue)}]
    /\ UNCHANGED <<dispatch_vars, store_vars, driver, wrote, fetch>>

\* The agent, on its worker, invokes SavePersona or SaveMemory: the record
\* gets get_request_id() of the context the task runs in.
AgentToolSaves ==
    /\ \E task \in pool.running, type \in {"persona", "note"} :
          /\ task.kind = "agent"
          /\ wrote' = Record(task.turn, type, task.ctx)
    /\ UNCHANGED <<dispatch_vars, store_vars, driver, pool, fetch>>

\* After a failed call: the runner falls back from the agent to llm._call,
\* and gives the interaction up when that fails too.
AfterFailedCall(queue, running) ==
    IF driver.call = "agent"
    THEN /\ driver' = [driver EXCEPT !.call = "llm"]
         /\ pool' = [queue |-> Append(queue, Task("llm", driver.turn,
                                                  NoRequestId, NoRequestId)),
                     running |-> running]
    ELSE /\ driver' = [driver EXCEPT !.at = "input", !.call = "none"]
         /\ pool' = [queue |-> queue, running |-> running]

\* Variant: the worker of a call that has returned is not given back to the
\* pool.
CallReturnsHoldsWorker ==
    /\ \E task \in pool.running : Awaited(task)
    /\ pool' = pool
    /\ driver' = [driver EXCEPT !.at = "answered", !.call = "none",
                                !.appended = @ + 1]
    /\ UNCHANGED <<dispatch_vars, store_vars, wrote, fetch>>

\* The awaited call returns its answer, which is printed and appended to
\* short_history.
CallReturns ==
    /\ \E task \in pool.running :
          /\ Awaited(task)
          /\ pool' = [pool EXCEPT !.running = @ \ {task}]
    /\ driver' = [driver EXCEPT !.at = "answered", !.call = "none",
                                !.appended = @ + 1]
    /\ UNCHANGED <<dispatch_vars, store_vars, wrote, fetch>>

\* The awaited call raises.
CallRaises ==
    /\ \E task \in pool.running :
          /\ Awaited(task)
          /\ AfterFailedCall(pool.queue, pool.running \ {task})
    /\ UNCHANGED <<dispatch_vars, store_vars, wrote, fetch>>

\* fut.result(timeout) gives up: fut.cancel() withdraws a task that has not
\* started and leaves a started one running.
CallTimesOut ==
    /\ driver.at = "waiting"
    /\ LET task == Task(driver.call, driver.turn, NoRequestId, NoRequestId)
       IN  AfterFailedCall(Without(pool.queue, task), pool.running)
    /\ UNCHANGED <<dispatch_vars, store_vars, wrote, fetch>>

\* A call nobody waits for any more comes to its end.
OrphanReturns ==
    /\ \E task \in pool.running :
          /\ task.kind \in {"agent", "llm"}
          /\ ~Awaited(task)
          /\ pool' = [pool EXCEPT !.running = @ \ {task}]
    /\ UNCHANGED <<dispatch_vars, store_vars, driver, wrote, fetch>>

\* Variant: the save is submitted like any other task.
SubmitSaveBare ==
    /\ driver.at = "answered"
    /\ pool' = [pool EXCEPT !.queue =
                   Append(@, Task("save", driver.turn, NoRequestId, NoRequestId))]
    /\ driver' = [driver EXCEPT !.at = "input"]
    /\ UNCHANGED <<dispatch_vars, store_vars, wrote, fetch>>

\* ctx = copy_context(); EXECUTOR.submit(ctx.run, auto_save_turn, user,
\* result, get_request_id(), None, True): the loop goes on to the next input.
SubmitSave ==
    /\ driver.at = "answered"
    /\ pool' = [pool EXCEPT !.queue =
                   Append(@, Task("save", driver.turn, driver.request_id,
                                  driver.request_id))]
    /\ driver' = [driver EXCEPT !.at = "input"]
    /\ UNCHANGED <<dispatch_vars, store_vars, wrote, fetch>>

\* auto_save_turn on its worker: request_id is the argument, or
\* get_request_id() when the argument is None; add, trim, persist.
SaveWrites ==
    /\ \E task \in pool.running :
          /\ task.kind = "save"
          /\ pool' = [pool EXCEPT !.running = @ \ {task}]
          /\ wrote' = Record(task.turn, "turn",
                             IF task.request_id # NoRequestId
                             THEN task.request_id ELSE task.ctx)
    /\ UNCHANGED <<dispatch_vars, store_vars, driver, fetch>>

\* auto_save_turn returns None: nothing worth saving, or no store.
SaveSkips ==
    /\ \E task \in pool.running :
          /\ task.kind = "save"
          /\ pool' = [pool EXCEPT !.running = @ \ {task}]
    /\ UNCHANGED <<dispatch_vars, store_vars, driver, wrote, fetch>>

SessionNext ==
    \/ NewInteraction
    \/ SlashSave
    \/ SlashQuery
    \/ CliPersonaAutosave
    \/ CliNoPersona
    \/ CliToolSaves
    \/ CliAnswer
    \/ RunnerSubmitCall
    \/ StartTask
    \/ AgentToolSaves
    \/ CallReturns
    \/ CallRaises
    \/ CallTimesOut
    \/ OrphanReturns
    \/ SubmitSave
    \/ SaveWrites
    \/ SaveSkips

SessionSpec == SessionInit /\ [][SessionNext]_vars

\* -------------------------------------------------------- the page fetch

\* Largest max_retries a caller passes.
MaxRetries == 2

\* def fetch_rendered_page(url, timeout=15, max_retries=2).
DefaultTimeout == 15

DefaultMaxRetries == 2

FetchTimeouts == {1, DefaultTimeout}

RECURSIVE Pow2(_)
Pow2(n) == IF n = 0 THEN 1 ELSE 2 * Pow2(n - 1)

\* A call of the tool FetchRenderedPage, which passes the url alone, or of
\* fetch_rendered_page itself.
FetchInit ==
    /\ DispatcherUnused("fetch")
    /\ StoreUnused
    /\ SessionUnused
    /\ \E via \in {"tool", "direct"}, url \in {"empty", "given"},
          timeout \in FetchTimeouts, max_retries \in 0..MaxRetries :
          /\ via = "tool" => timeout = DefaultTimeout /\ max_retries = DefaultMaxRetries
          /\ fetch = [at |-> IF via = "tool" THEN "tool" ELSE "import",
                      via |-> via, url |-> url, timeout |-> timeout,
                      max_retries |-> max_retries, attempts |-> 0,
                      last_err |-> "none", renders |-> << >>, gets |-> 0,
                      result |-> NoFetchResult]

FetchFrame == UNCHANGED <<dispatch_vars, store_vars, session_vars>>

\* fetch_rendered_page_tool, lines 242-246: the implementation cannot be
\* imported.
ToolImportFails ==
    /\ fetch.at = "tool"
    /\ fetch' = [fetch EXCEPT !.at = "done",
                    !.result = FetchResult("error", "fetch_impl_missing", -1)]
    /\ FetchFrame

\* Lines 248-250: the argument is empty.
ToolNoUrl ==
    /\ fetch.at = "tool"
    /\ fetch.url = "empty"
    /\ fetch' = [fetch EXCEPT !.at = "done",
                    !.result = FetchResult("error", "no_url_provided", -1)]
    /\ FetchFrame

\* Line 252: res = fetch_rendered_page(url).
ToolCalls ==
    /\ fetch.at = "tool"
    /\ fetch.url = "given"
    /\ fetch' = [fetch EXCEPT !.at = "import"]
    /\ FetchFrame

\* Line 27 raises, lines 51-52.
PlaywrightImportFails ==
    /\ fetch.at = "import"
    /\ fetch' = [fetch EXCEPT !.at = "get", !.last_err = "import"]
    /\ FetchFrame

\* Line 27 succeeds: the loop of line 29 begins.
PlaywrightImported ==
    /\ fetch.at = "import"
    /\ fetch' = [fetch EXCEPT !.at = "render"]
    /\ FetchFrame

\* The timeout of the attempt the loop is at: timeout * (2 ** attempt).
cur_timeout == fetch.timeout * Pow2(Len(fetch.renders))

\* An attempt of the loop that fails with err: the loop goes on, and is left
\* for the fallback after attempt max_retries.
RenderFails(err) ==
    /\ fetch.at = "render"
    /\ fetch' = [fetch EXCEPT
                    !.attempts = @ + 1,
                    !.renders = Append(@, [timeout |-> cur_timeout, ok |-> FALSE]),
                    !.last_err = err,
                    !.at = IF Len(fetch.renders) + 1 < fetch.max_retries + 1
                           THEN "render" ELSE "get"]
    /\ FetchFrame

\* Lines 30-43: the page is rendered.
RenderSucceeds ==
    /\ fetch.at = "render"
    /\ fetch' = [fetch EXCEPT
                    !.attempts = @ + 1,
                    !.renders = Append(@, [timeout |-> cur_timeout, ok |-> TRUE]),
                    !.at = "done",
                    !.result = FetchResult("playwright", "none", fetch.attempts + 1)]
    /\ FetchFrame

\* Lines 44-45.
RenderTimesOut == RenderFails("timeout")

\* Variant: an error of an attempt leaves the function.
RenderRaisesPropagates ==
    /\ fetch.at = "render"
    /\ fetch' = [fetch EXCEPT
                    !.attempts = @ + 1,
                    !.renders = Append(@, [timeout |-> cur_timeout, ok |-> FALSE]),
                    !.at = "raised"]
    /\ FetchFrame

\* Lines 47-48.
RenderRaises == RenderFails("error")

\* Lines 55-64: requests.get answers.
GetSucceeds ==
    /\ fetch.at = "get"
    /\ fetch' = [fetch EXCEPT
                    !.gets = @ + 1,
                    !.at = "done",
                    !.result = FetchResult("requests", "playwright_failed",
                                           fetch.attempts + 1)]
    /\ FetchFrame

\* Lines 65-71: requests cannot be imported, or the GET fails.
GetFails ==
    /\ fetch.at = "get"
    /\ fetch' = [fetch EXCEPT
                    !.gets = @ + 1,
                    !.at = "done",
                    !.result = FetchResult("error", "requests_failed",
                                           fetch.attempts + 1)]
    /\ FetchFrame

FetchNext ==
    \/ ToolImportFails
    \/ ToolNoUrl
    \/ ToolCalls
    \/ PlaywrightImportFails
    \/ PlaywrightImported
    \/ RenderSucceeds
    \/ RenderTimesOut
    \/ RenderRaises
    \/ GetSucceeds
    \/ GetFails

FetchSpec == FetchInit /\ [][FetchNext]_vars

\* ---------------------------------------------------- reading the trace

LlmIdx == {i \in 1..Len(trace) : trace[i].op = "llm"}
ToolIdx == {i \in 1..Len(trace) : trace[i].op = "tool"}

ModelCalls == Cardinality(LlmIdx)
ToolInvocations == Cardinality(ToolIdx)

\* The forced final call is the one whose input ends with the limit notice.
IsFinalCall(e) ==
    /\ e.op = "llm"
    /\ Len(e.input) > 0
    /\ e.input[Len(e.input)].kind = "limit"

RoundIdx == {i \in LlmIdx : ~IsFinalCall(trace[i])}
FinalIdx == {i \in LlmIdx : IsFinalCall(trace[i])}

\* A response that carries a directive, for a registered or an unknown name.
HasDirective(e) == e.op = "llm" /\ ~e.raised /\ Directive(e.out).found
NamesKnown(e) == HasDirective(e) /\ Directive(e.out).name \in tools
NamesUnknown(e) == HasDirective(e) /\ Directive(e.out).name \notin tools

IsPrefix(a, b) == Len(a) <= Len(b) /\ SubSeq(b, 1, Len(a)) = a

\* ------------------------------------------------------------------ claims

\* C1 (as stated; refuted by the code): with max_tool_calls = N and a model
\* that answers every call with a valid directive for a registered tool that
\* returns, a finished turn made exactly N+1 model calls and returned the
\* output of the last one.
C1_RoundBudget ==
    ( /\ pc = "done"
      /\ ~MatchesTimeQuery(user_prompt)
      /\ \A i \in LlmIdx : NamesKnown(trace[i])
      /\ \A i \in ToolIdx : ~trace[i].raised )
    => /\ ModelCalls = max_tool_calls + 1
       /\ result = Returned(trace[Len(trace)].out)

\* C2 (as stated; refuted by the code): the number of tool invocations of a
\* turn never exceeds max_tool_calls.
C2_ToolBudget == ToolInvocations <= max_tool_calls

\* C3: a round's response naming an unregistered tool does not end the turn,
\* no tool is invoked for it, the round is consumed, and the input of the
\* next model call holds a tool-error block with the literal unknown name.
C3_UnknownTool ==
    /\ pc = "loop" => call_idx = Cardinality(RoundIdx)
    /\ \A i \in RoundIdx :
          NamesUnknown(trace[i]) =>
             LET n == Directive(trace[i].out).name
                 Mentions(ctx) ==
                    \E k \in 1..Len(ctx) :
                       ctx[k].kind = "ToolError" /\ ctx[k].name = n
             IN  IF i = Len(trace)
                    THEN pc = "loop" /\ result = NoResult /\ Mentions(context)
                    ELSE /\ trace[i+1].op = "llm"
                         /\ Mentions(trace[i+1].input)

C3_Witness ==
    \E i \in RoundIdx :
       /\ NamesUnknown(trace[i])
       /\ i < Len(trace)
       /\ IsFinalCall(trace[i+1])
       /\ pc = "done"

\* C4: a model call that raises is the last call of the turn: the turn is
\* over at once with a failure string, no model call and no tool invocation
\* follows, and nothing is raised to the caller.
C4_ModelFailure ==
    \A i \in LlmIdx :
       trace[i].raised =>
          /\ i = Len(trace)
          /\ pc = "done"
          /\ result = IF IsFinalCall(trace[i]) THEN LlmFailureFinal ELSE LlmFailure

C4_Witness ==
    /\ Len(trace) >= 3
    /\ trace[Len(trace)].op = "llm"
    /\ trace[Len(trace)].raised
    /\ ~IsFinalCall(trace[Len(trace)])
    /\ ToolInvocations >= 1

\* C5: a tool that raises does not end the turn and nothing is raised to the
\* caller; the exception becomes the observation appended to the context,
\* and the next call is a model call whose input holds that observation.
C5_ToolFailure ==
    /\ result # Propagated
    /\ \A i \in ToolIdx :
          trace[i].raised =>
             LET Observed(ctx) ==
                    \E k \in 1..Len(ctx) :
                       /\ ctx[k].kind = "ToolInvocation"
                       /\ ctx[k].name = trace[i].name
                       /\ ctx[k].text = << <<"exception">> >>
             IN  IF i = Len(trace)
                    THEN pc = "loop" /\ result = NoResult /\ Observed(context)
                    ELSE /\ trace[i+1].op = "llm"
                         /\ Observed(trace[i+1].input)

C5_Witness ==
    \E i \in ToolIdx :
       /\ trace[i].raised
       /\ i < Len(trace)
       /\ pc = "done"
       /\ result.kind = "response"

\* C6: when no round ended the turn (every round's response carried a
\* directive), exactly one more model call is made, on the accumulated
\* context followed by the limit notice; it is the last call of the turn,
\* its output is returned as it is, directive or not, and a failure string
\* is returned when it raises.
C6_Exhaustion ==
    /\ Cardinality(FinalIdx) <= 1
    /\ \A i \in FinalIdx :
          /\ i = Len(trace)
          /\ pc = "done"
          /\ trace[i].input = context \o <<Seg("limit", "", << >>, << >>, 0)>>
          /\ \A j \in RoundIdx : IsPrefix(trace[j].input, trace[i].input)
          /\ result = IF trace[i].raised THEN LlmFailureFinal
                      ELSE Returned(trace[i].out)
    /\ ( pc = "done" /\ RoundIdx # {} /\ \A j \in RoundIdx : HasDirective(trace[j]) )
       => Cardinality(FinalIdx) = 1

C6_Witness ==
    /\ pc = "done"
    /\ FinalIdx = {Len(trace)}
    /\ NamesKnown(trace[Len(trace)])
    /\ result = Returned(trace[Len(trace)].out)
    /\ ToolInvocations >= 1

\* C7: a prompt holding a recognised current-year phrasing is answered with
\* the year the local clock gave, with no model call and no tool invocation.
C7_TimeFastPath ==
    ( MatchesTimeQuery(user_prompt) /\ pc # "start" )
    => /\ pc = "done"
       /\ result = YearAnswer(now_year)
       /\ now_year \in Years
       /\ trace = << >>

C7_Witness ==
    /\ pc = "done"
    /\ user_prompt = <<"hello", "jinnian_shi_nanian">>
    /\ result.kind = "year"

\* C8: a turn whose prompt is no time query has made at least one model call
\* when it returns, whatever max_tool_calls is.
C8_AtLeastOneModelCall ==
    ( pc = "done" /\ ~MatchesTimeQuery(user_prompt) ) => ModelCalls >= 1

C8_Witness ==
    /\ pc = "done"
    /\ ~MatchesTimeQuery(user_prompt)
    /\ max_tool_calls = 0
    /\ ModelCalls = 1

\* C9: every turn ends with a returned string, and at no point has it made
\* more than max_tool_calls + 2 model calls or max_tool_calls + 1 tool
\* invocations, whatever the model emits.
C9_Terminates ==
    /\ [](/\ ModelCalls <= max_tool_calls + 2
          /\ ToolInvocations <= max_tool_calls + 1
          /\ (pc = "done" => result.kind \in {"response", "year", "llm_failed", "llm_failed_final"}))
    /\ <>(pc = "done")

C9_Witness ==
    /\ pc = "done"
    /\ max_tool_calls = MaxRounds
    /\ ModelCalls = max_tool_calls + 2
    /\ \E i \in RoundIdx : NamesUnknown(trace[i])
    /\ \E i \in RoundIdx : NamesKnown(trace[i])

\* C10 (as stated; refuted by the code): the tool result embedded by an
\* observation block is cut to the summary limit.
C10_ObservationBounded ==
    \A k \in 1..Len(context) :
       context[k].kind = "ToolInvocation" => context[k].len <= ResultSummaryLimit

\* C11 (as stated; refuted by the code): the loop never waits without end
\* on a single call: while a model call or a tool call is outstanding, a
\* step (the deadline elapsing, at the latest) remains possible.
C11_Deadline ==
    pc \in {"waiting_llm", "waiting_tool"} => ENABLED DeadlineNext

\* The fragments (first line, last line) of a text that are a JSON-form
\* directive when read on their own, and the lines that are a line-form one.
JsonFragments(text) ==
    {ij \in (1..Len(text)) \X (1..Len(text)) :
        /\ ij[1] <= ij[2]
        /\ ParseJsonForm(SubSeq(text, ij[1], ij[2])).found}

LineDirectives(text) ==
    {i \in 1..Len(text) :
        /\ Len(text[i]) >= 2
        /\ text[i][1] \in LineKeywords
        /\ text[i][2] \in NameTokens}

\* C12 (as stated; refuted by the code): a response that holds a JSON-form
\* directive and a line-form directive, in either order, is parsed to the
\* (name, args) of a JSON-form directive of that response.
C12_JsonPriority ==
    ( /\ pc = "parsed"
      /\ JsonFragments(response) # {}
      /\ LineDirectives(response) # {} )
    => \E ij \in JsonFragments(response) :
          tc = ParseJsonForm(SubSeq(response, ij[1], ij[2]))

\* C13 (as stated; refuted by the code): a response with a JSON-form
\* directive is parsed to its tool/name and args/arguments values; one
\* without, to the name and the rest of the first line of the line form;
\* one with neither, to no directive.
C13_Extraction ==
    pc = "parsed" =>
       /\ response = << <<"CALL_TOOL:", "Foo", "hello", "world">> >>
             => tc = Call("Foo", <<"hello", "world">>)
       /\ response = << <<"CALL_TOOL_JSON:", "{", "tool:", "Foo", "args:", "hello", "}">> >>
             => tc = Call("Foo", <<"hello">>)
       /\ IF JsonFragments(response) # {}
             THEN \E ij \in JsonFragments(response) :
                     tc = ParseJsonForm(SubSeq(response, ij[1], ij[2]))
          ELSE IF LineDirectives(response) # {}
             THEN LET line == response[SetMin(LineDirectives(response))]
                  IN  tc = Call(line[2], SubSeq(line, 3, Len(line)))
          ELSE tc = NoCall

\* C14: a tool is invoked only right after a model response whose directive
\* names it exactly, the registered tool of that name is the one called, and
\* with the parsed arguments; a directive whose name is not registered as
\* written (one differing only in letter case included) is followed by no
\* tool invocation but by the next model call, told of the unknown tool.
C14_ExactLookup ==
    /\ \A i \in ToolIdx :
          /\ i > 1
          /\ HasDirective(trace[i - 1])
          /\ Directive(trace[i - 1].out).name = trace[i].name
          /\ trace[i].name \in tools
          /\ Directive(trace[i - 1].out).args = trace[i].args
    /\ \A i \in LlmIdx :
          ( NamesUnknown(trace[i]) /\ i < Len(trace) )
          => /\ trace[i + 1].op = "llm"
             /\ \E k \in 1..Len(trace[i + 1].input) :
                   /\ trace[i + 1].input[k].kind = "ToolError"
                   /\ trace[i + 1].input[k].name = Directive(trace[i].out).name
    /\ pc = "tool"
          => /\ trace # << >>
             /\ HasDirective(trace[Len(trace)])
             /\ tc = Directive(trace[Len(trace)].out)
             /\ tc.name \in tools

\* A finished turn in which a directive for foo, with Foo registered, was
\* treated as unknown, and a directive for Foo invoked Foo.
C14_Witness ==
    /\ pc = "done"
    /\ "Foo" \in tools
    /\ \E i \in LlmIdx :
          /\ NamesUnknown(trace[i])
          /\ Directive(trace[i].out).name = "foo"
          /\ i < Len(trace)
    /\ \E i \in ToolIdx : trace[i].name = "Foo"

\* C15: in every state of the store - constructed empty or from a file that
\* persist wrote, after any add, search, persist or info - texts and
\* metadatas have the same length, and the record at each index is the text
\* and the metadata of one and the same add call; the same holds of every
\* complete file.
C15_Pairing ==
    /\ Len(texts) = Len(metadatas)
    /\ \A i \in 1..Len(texts) : metadatas[i].call = texts[i]
    /\ path_file.state = "complete"
          => /\ Len(path_file.texts) = Len(path_file.metadatas)
             /\ \A i \in 1..Len(path_file.texts) :
                   path_file.metadatas[i].call = path_file.texts[i]

\* A store loaded from a persisted file, to which an add at capacity has
\* just been made: a loaded record is still there, the new one is last.
C15_Witness ==
    /\ restarted
    /\ last.op = "add"
    /\ Len(texts) >= 2
    /\ path_file.state = "complete"
    /\ \E i \in 1..Len(path_file.texts) : path_file.texts[i] = texts[1]
    /\ texts[Len(texts)] = n_adds
    /\ texts[1] # path_file.texts[1]

\* C16 (as stated; too wide): an add made below capacity returns the
\* previous record count and removes nothing; an add made to a store that
\* holds max records returns max-1, the record at index 0 removed first.
C16_AddReturn ==
    [][ n_adds' = n_adds + 1
        => /\ Len(texts) < max_items
                 => /\ last'.idx = Len(texts)
                    /\ texts' = Append(texts, n_adds')
           /\ Len(texts) = max_items
                 => /\ last'.idx = max_items - 1
                    /\ texts # << >>
                    /\ texts' = Append(Tail(texts), n_adds') ]_vars

\* C16 (amended): for a configured maximum of at least 1, an add made below
\* capacity returns the previous record count and removes nothing; an add
\* made to a store that holds max records returns max-1, the record at index
\* 0 removed first; the index returned is where the new record is.
C16_AddReturnAmended ==
    [][ ( n_adds' = n_adds + 1 /\ max_items >= 1 )
        => /\ Len(texts) < max_items
                 => /\ last'.idx = Len(texts)
                    /\ texts' = Append(texts, n_adds')
                    /\ metadatas'[last'.idx + 1].call = n_adds'
           /\ Len(texts) = max_items
                 => /\ last'.idx = max_items - 1
                    /\ texts # << >>
                    /\ texts' = Append(Tail(texts), n_adds')
                    /\ metadatas'[last'.idx + 1].call = n_adds' ]_vars

\* An add to a full store has just returned max-1.
C16_Witness ==
    /\ last.op = "add"
    /\ max_items >= 1
    /\ ~restarted
    /\ n_adds > max_items
    /\ last.idx = max_items - 1
    /\ texts[max_items] = n_adds

\* C17: a store that started empty, with a maximum M >= 1, holds after n
\* adds exactly the last min(n, M) records added, in the order of the adds.
C17_Fifo ==
    ( ~restarted /\ max_items >= 1 )
    => LET k == Min(n_adds, max_items)
       IN  /\ texts = [i \in 1..k |-> n_adds - k + i]
           /\ Len(metadatas) = k
           /\ \A i \in 1..k : metadatas[i].call = n_adds - k + i

\* Two adds over the limit of a store that started empty.
C17_Witness ==
    /\ ~restarted
    /\ max_items >= 1
    /\ n_adds >= max_items + 2
    /\ Len(texts) = max_items
    /\ last.op = "add"

\* C18 (as stated; refuted by the code): once an add has returned, the store
\* holds no more records than the configured maximum - shown here for the
\* maxima of at least 1 alone, a store loaded from a longer file included.
C18_StoreBound ==
    ( last.op = "add" /\ max_items >= 1 ) => Len(texts) <= max_items

\* C19 (as stated; refuted by the code): no file at a persistence path of
\* the store is ever partially written, whatever step the persist calls are
\* at and whenever the process stops.
C19_AtomicPersist ==
    /\ path_file.state # "partial"
    /\ idx_file.state # "partial"

\* C20: a step of persist that fails makes persist return False without
\* raising, the file at the path and the records in memory as they were;
\* the file changes only by a persist that returns True; save_persona and
\* auto_save_turn still return the index of the record they added, and the
\* dispatch loop's state, the turn's answer included, is not touched.
C20_PersistFailure ==
    [][ /\ \A t \in Threads :
              ( /\ thread[t].at \in {"mkstemp", "write", "replace"}
                /\ thread'[t] = IdleThread
                /\ last'.op # "none"
                /\ ~last'.persisted )
              => /\ path_file' = path_file
                 /\ texts' = texts
                 /\ metadatas' = metadatas
                 /\ ~last'.raised
                 /\ last'.op = thread[t].op
                 /\ last'.idx = thread[t].idx
                 /\ result' = result
        /\ path_file' # path_file => last'.persisted ]_vars

\* save_persona has returned its index with persisted false, the file still
\* holding the state persisted before.
C20_Witness ==
    /\ last.op = "save_persona"
    /\ ~last.persisted
    /\ last.idx >= 0
    /\ path_file.state = "complete"
    /\ path_file.texts # texts

C22_LoadFailure ==
    ( /\ restarted
      /\ last = NoReturn
      /\ \A t \in Threads : thread[t] = IdleThread
      /\ path_file.state = "partial" \/ idx_file.state = "partial" )
    => /\ texts = << >>
       /\ metadatas = << >>
       /\ ntotal = 0
       /\ index = << >>

\* C23 (as stated; refuted by the code): every add of the similarity backend
\* leaves the lists that the add of the substring fallback would have left
\* in the same state under the same maximum, and returns the same index.
C23_BackendEquivalence ==
    [][ n_adds' = n_adds + 1
        => LET kind == metadatas'[Len(metadatas')].kind
               j == JsonMemoryFallback_add(texts, metadatas, max_items, n_adds', kind)
           IN  /\ texts' = j.texts
               /\ metadatas' = j.metadatas
               /\ last'.idx = j.idx ]_vars

\* Whether string str holds query somewhere, letter case set aside.
Occurs(query, str) ==
    \E i \in 0..(Len(str) - Len(query)) :
       \A j \in 1..Len(query) : LowerChar[str[i + j]] = LowerChar[query[j]]

\* The indices of the records in whose text or metadata values the query
\* of the last search occurs.
Matching ==
    {i \in 1..Len(texts) :
        \/ Occurs(last.query, texts[i])
        \/ \E v \in 1..Len(metadatas[i]) : Occurs(last.query, metadatas[i][v])}

\* C24: a search returns at most k hits, each with score 1; the hits are,
\* in stored order, the first k records in whose text or metadata values the
\* query occurs case-insensitively, so a record where it occurs nowhere is
\* never returned; the search changes nothing in the store.
C24_FallbackSearch ==
    [][ ( last'.op = "search" /\ last' # last )
        => /\ texts' = texts
           /\ metadatas' = metadatas ]_vars
    /\ []( last.op = "search"
           => /\ Len(last.hits) = Min(last.k, Cardinality(Matching))
              /\ \A j \in 1..Len(last.hits) :
                    \E i \in Matching :
                       /\ Cardinality({m \in Matching : m <= i}) = j
                       /\ last.hits[j] = [text |-> texts[i], meta |-> metadatas[i],
                                          score |-> 1] )

\* A search for AT in a store of cat and of act with the metadata value Cat
\* has returned both records, the second one for its metadata.
C24_Witness ==
    /\ last.op = "search"
    /\ last.query = <<"A", "T">>
    /\ last.k = DefaultK
    /\ texts = << <<"c", "a", "t">>, <<"a", "c", "t">> >>
    /\ metadatas = << << >>, << <<"a", "c", "t">>, <<"C", "a", "t">> >> >>
    /\ Len(last.hits) = 2

\* C25: a call the driver waits for never sits in the queue of the pool
\* while every worker is busy with a save of an earlier interaction.
C25_NonBlockingSave ==
    ~ ( /\ driver.at = "waiting"
        /\ \E i \in 1..Len(pool.queue) : Awaited(pool.queue[i])
        /\ Cardinality(pool.running) = MaxWorkers
        /\ \A task \in pool.running : task.kind = "save" )

\* C26: the record a background save writes carries the request id of the
\* interaction whose text it holds.
C26_RequestIdCapture ==
    wrote.type = "turn" => wrote.request_id = RequestId(wrote.turn)

\* A save wrote its record after the driver had begun a later interaction.
C26_Witness ==
    /\ wrote.type = "turn"
    /\ wrote.late
    /\ driver.request_id # wrote.request_id

\* C27: every record written, by a tool or by a background save, carries
\* the request id of the interaction it belongs to.
C27_RequestIdPropagation ==
    wrote.type # "none" => wrote.request_id = RequestId(wrote.turn)

\* C28: at most max_retries + 1 render attempts are made, attempt i (from
\* 0) with timeout * 2^i, and none after a success; the GET is made at most
\* once, and only when rendering could not be imported or max_retries + 1
\* attempts all failed; the function never raises, every call that has not
\* returned has a next step, and a call that has ended returned a result.
C28_FetchRetry ==
    LET n == Len(fetch.renders)
    IN  /\ n <= fetch.max_retries + 1
        /\ \A i \in 1..n :
              /\ fetch.renders[i].timeout = fetch.timeout * Pow2(i - 1)
              /\ fetch.renders[i].ok => i = n /\ fetch.at = "done" /\ fetch.gets = 0
        /\ fetch.gets <= 1
        /\ ( fetch.gets = 1 \/ fetch.at = "get" )
              => /\ \A i \in 1..n : ~fetch.renders[i].ok
                 /\ \/ n = fetch.max_retries + 1
                    \/ n = 0 /\ fetch.last_err = "import"
        /\ fetch.at # "raised"
        /\ fetch.at \in {"import", "render", "get"} => ENABLED FetchNext
        /\ fetch.at = "done" => fetch.result # NoFetchResult

\* Every render attempt allowed was made and failed, with timeouts 15, 30 and
\* 60, and the GET then answered.
C28_Witness ==
    /\ fetch.at = "done"
    /\ fetch.max_retries = DefaultMaxRetries
    /\ Len(fetch.renders) = DefaultMaxRetries + 1
    /\ fetch.renders[Len(fetch.renders)].timeout = DefaultTimeout * Pow2(DefaultMaxRetries)
    /\ fetch.gets = 1
    /\ fetch.result.source = "requests"

\* C29: every result of the page-fetch tool names the path used and carries
\* an attempts count equal to the render attempts made plus the GET made.
C29_FetchReport ==
    ( fetch.via = "tool" /\ fetch.at = "done" )
    => /\ fetch.result.source \in {"playwright", "requests", "error"}
       /\ fetch.result.attempts = Len(fetch.renders) + fetch.gets

\* C30: the step that begins SavePersona appends a record of type persona
\* as the last record of the store and notes the index add returned; SavePersona returns only from a step of the persist it
\* began after that add, with that index, and with persisted true only when
\* the step put the dump at the target; a failed persist leaves the records
\* and the target file as they were.
C30_SavePersona ==
    [][ \A t \in Threads :
           /\ ( thread[t].op = "idle" /\ thread'[t].op = "save_persona" )
                 => /\ n_adds' = n_adds + 1
                    /\ thread'[t].idx = last'.idx
                    /\ thread'[t].at \in {"mkstemp", "write_index"}
                    /\ texts'[Len(texts')] = n_adds'
                    /\ metadatas'[Len(metadatas')] =
                          [call |-> n_adds', kind |-> "persona"]
           /\ ( thread[t].op = "save_persona" /\ thread'[t] = IdleThread
                /\ last'.op # "none" )
                 => /\ thread[t].at \in {"mkstemp", "write", "replace"}
                    /\ last'.op = "save_persona"
                    /\ last'.idx = thread[t].idx
                    /\ last'.persisted
                          => ( thread[t].at = "replace" /\ path_file' = thread[t].tmp )
                    /\ texts' = texts
                    /\ metadatas' = metadatas
                    /\ ~last'.persisted => path_file' = path_file ]_vars

\* SavePersona returned an index and persisted false, and the persona record
\* it added is in the store.
C30_Witness ==
    /\ last.op = "save_persona"
    /\ ~last.persisted
    /\ last.idx >= 0
    /\ ~restarted
    /\ \E i \in 1..Len(metadatas) : metadatas[i].kind = "persona"

\* The tasks of kind kind that interaction turn has in the pool p.
TasksOf(p, kind, turn) ==
    {i \in 1..Len(p.queue) : p.queue[i].kind = kind /\ p.queue[i].turn = turn}
    \cup {task \in p.running : task.kind = kind /\ task.turn = turn}

\* A step of the runner that handles a slash command: one tool is invoked,
\* the pool gets no task, short_history gets nothing, the next input is read.
SlashBypasses ==
    ( driver.at = "turn" /\ driver'.invoked # << >> )
    => /\ Len(driver'.invoked) = 1
       /\ pool' = pool
       /\ driver'.appended = 0
       /\ driver'.at = "input"

\* A step of the runner that takes any other input: the input is appended to
\* short_history and a model or agent call is submitted.
OtherInputCalls ==
    ( driver.loop # "cli" /\ driver.at = "turn" /\ driver' # driver
      /\ driver'.invoked = << >> )
    => /\ driver'.at = "waiting"
       /\ driver'.appended = 1
       /\ Cardinality(TasksOf(pool', driver'.call, driver.turn)) = 1

\* C31 as stated: a slash command invokes one tool and bypasses the model,
\* the history and the save; every other input is sent to the model, and
\* when its interaction ends one save of it has been submitted.
C31_SlashBypass ==
    [][ /\ SlashBypasses
        /\ OtherInputCalls
        /\ ( driver.at \in {"waiting", "answered"} /\ driver'.at = "input" )
              => Cardinality(TasksOf(pool', "save", driver.turn)) = 1 ]_vars

\* C31 amended: as stated for the slash commands; every other input is sent
\* to the model, one save of it is submitted when the call returned an
\* answer, and none when the call failed.
C31_SlashBypassAmended ==
    [][ /\ SlashBypasses
        /\ OtherInputCalls
        /\ ( driver.at = "answered" /\ driver'.at = "input" )
              => /\ Cardinality(TasksOf(pool', "save", driver.turn)) = 1
                 /\ TasksOf(pool, "save", driver.turn) = {}
        /\ ( driver.at = "waiting" /\ driver'.at = "input" )
              => TasksOf(pool', "save", driver.turn) = {} ]_vars

\* The second input was a slash command, handled while the save of the first
\* interaction is in the pool.
C31_Witness ==
    /\ driver.turn > 1
    /\ driver.at = "input"
    /\ Len(driver.invoked) = 1
    /\ driver.appended = 0
    /\ \E turn \in 1..(driver.turn - 1) : TasksOf(pool, "save", turn) # {}
    /\ TasksOf(pool, "save", driver.turn) = {}

\* The lines of text that hold the keyword of the JSON form.
JsonKeywordLines(text) ==
    {i \in 1..Len(text) : \E j \in 1..Len(text[i]) : text[i][j] \in JsonKeywords}

\* C32 (as stated; refuted by the code): a response whose JSON payload is
\* not a well-formed directive is parsed by the line form, and to no
\* directive when it has no line-form directive either; the parser yields
\* no directive - the response is then returned as the final answer - only
\* for a response that holds no well-formed directive of either form.
C32_MalformedJson ==
    pc = "parsed" =>
       /\ ( JsonKeywordLines(response) # {} /\ JsonFragments(response) = {} )
             => IF LineDirectives(response) # {}
                   THEN LET line == response[SetMin(LineDirectives(response))]
                        IN  tc = Call(line[2], SubSeq(line, 3, Len(line)))
                   ELSE tc = NoCall
       /\ tc = NoCall
             => JsonFragments(response) = {} /\ LineDirectives(response) = {}

\* The model calls that follow call i with no other model call in between.
NextCall(i) == {j \in LlmIdx : j > i /\ \A m \in LlmIdx : ~(i < m /\ m < j)}

\* C33: between two consecutive model calls at most one tool is invoked, with
\* the name and arguments parsed from the earlier call's response; the later
\* call's input has the earlier call's input as a prefix and, when a tool was
\* invoked, goes on with that response and an observation carrying the
\* tool's name, its arguments and its result.
C33_RoundProtocol ==
    \A i \in LlmIdx :
       /\ ( i < Len(trace) /\ trace[i + 1].op = "tool" )
             => /\ ~trace[i].raised
                /\ Directive(trace[i].out) = [found |-> TRUE,
                                               name |-> trace[i + 1].name,
                                               args |-> trace[i + 1].args]
                /\ i + 1 < Len(trace) => trace[i + 2].op = "llm"
       /\ \A j \in NextCall(i) :
             LET before == trace[i].input
                 after == trace[j].input
                 n == Len(before)
             IN  /\ j - i <= 2
                 /\ IsPrefix(before, after)
                 /\ Len(after) > n
                 /\ j - i = 2
                       => /\ Len(after) >= n + 2
                          /\ after[n + 1].kind = "response"
                          /\ after[n + 1].text = trace[i].out
                          /\ after[n + 2].kind = "ToolInvocation"
                          /\ after[n + 2].name = trace[i + 1].name
                          /\ after[n + 2].args = trace[i + 1].args
                          /\ after[n + 2].text =
                                << <<IF trace[i + 1].raised THEN "exception"
                                     ELSE "result">> >>
                          /\ ~trace[i + 1].raised
                                => Min(after[n + 2].len, ResultSummaryLimit)
                                      = trace[i + 1].len

\* A turn with three model calls and a tool invoked between the first and
\* the second, and between the second and the third.
C33_Witness ==
    /\ pc = "done"
    /\ Cardinality(LlmIdx) >= 3
    /\ Cardinality(ToolIdx) >= 2
    /\ \E i \in ToolIdx : trace[i].args # << >> /\ ~trace[i].raised /\ trace[i].len > 0

\* ----------------------------- background saves on two pool workers

\* Two workers of EXECUTOR, each running the auto_save_turn of a turn
\* (cli.py lines 193-198). The list operations of add are steps of their own:
\* each is one call into the interpreter, and a thread may be switched
\* between any two of them.
Workers == {"worker", "worker2"}

AddSteps == {"add_check", "pop_texts", "pop_metadatas", "add_idx",
             "append_text", "append_meta"}

RaceInit ==
    /\ DispatcherUnused("store")
    /\ SessionUnused
    /\ FetchUnused
    /\ backend = "json"
    /\ mode = "always"
    /\ max_items \in 0..MaxItems
    /\ texts = << >>
    /\ metadatas = << >>
    /\ ntotal = 0
    /\ index = << >>
    /\ path_file = NoFile
    /\ idx_file = NoFile
    /\ thread = [t \in Workers |-> IdleThread]
    /\ n_adds = 0
    /\ restarted = FALSE
    /\ last = NoReturn

RaceFrame == UNCHANGED <<dispatch_vars, session_vars, fetch, backend, mode, max_items,
                         ntotal, index, idx_file, restarted>>

\* The "type" entry of the metadata an operation adds its record with:
\* src/tools.py lines 66 and 145, memory_utils.py line 107.
MetaType(op) ==
    CASE op = "save_persona" -> "persona"
      [] op = "save_memory" -> "note"
      [] OTHER -> "turn"

\* auto_save_turn, lines 93-115: the turn is worth saving and mem.add is
\* entered with its text and meta.
SaveBegins(t) ==
    /\ thread[t].op = "idle"
    /\ n_adds < MaxAdds
    /\ n_adds' = n_adds + 1
    /\ thread' = [thread EXCEPT ![t] =
                    [IdleThread EXCEPT !.op = "auto_save_turn", !.at = "add_check",
                                       !.call = n_adds + 1]]
    /\ UNCHANGED <<texts, metadatas, path_file, last>>
    /\ RaceFrame

\* add, line 30: len(self.texts) >= self.max_items.
AddCheck(t) ==
    /\ thread[t].at = "add_check"
    /\ Goto(t, IF Len(texts) >= max_items THEN "pop_texts" ELSE "add_idx")
    /\ UNCHANGED <<texts, metadatas, path_file, n_adds, last>>
    /\ RaceFrame

\* Line 32: self.texts.pop(0); the IndexError of an empty list goes to the
\* except of line 34.
AddPopTexts(t) ==
    /\ thread[t].at = "pop_texts"
    /\ IF texts = << >>
          THEN texts' = texts /\ Goto(t, "add_idx")
          ELSE texts' = Tail(texts) /\ Goto(t, "pop_metadatas")
    /\ UNCHANGED <<metadatas, path_file, n_adds, last>>
    /\ RaceFrame

\* Line 33: self.metadatas.pop(0).
AddPopMetadatas(t) ==
    /\ thread[t].at = "pop_metadatas"
    /\ metadatas' = IF metadatas = << >> THEN metadatas ELSE Tail(metadatas)
    /\ Goto(t, "add_idx")
    /\ UNCHANGED <<texts, path_file, n_adds, last>>
    /\ RaceFrame

\* Line 37: idx = len(self.texts).
AddIdx(t) ==
    /\ thread[t].at = "add_idx"
    /\ thread' = [thread EXCEPT ![t].at = "append_text", ![t].idx = Len(texts)]
    /\ UNCHANGED <<texts, metadatas, path_file, n_adds, last>>
    /\ RaceFrame

\* Line 38: self.texts.append(text).
AddAppendText(t) ==
    /\ thread[t].at = "append_text"
    /\ texts' = Append(texts, thread[t].call)
    /\ Goto(t, "append_meta")
    /\ UNCHANGED <<metadatas, path_file, n_adds, last>>
    /\ RaceFrame

\* Lines 39-43: self.metadatas.append(meta), and add returns idx.
AddAppendMeta(t) ==
    /\ thread[t].at = "append_meta"
    /\ metadatas' = Append(metadatas, Meta(thread[t].call, MetaType(thread[t].op)))
    /\ Goto(t, IF thread[t].op = "auto_save_turn" THEN "trim" ELSE FirstStep)
    /\ last' = Return("add", thread[t].idx, FALSE, << >>)
    /\ UNCHANGED <<texts, path_file, n_adds>>
    /\ RaceFrame

\* persist, line 66: json.dump writes the value of "texts" first; with
\* indent=2 the encoder is the generator of the json module, written out
\* piece by piece.
DumpTexts(t) ==
    /\ thread[t].at = "write"
    /\ thread' = [thread EXCEPT ![t].at = "write_metadatas",
                                ![t].tmp = [PartialFile EXCEPT !.texts = texts]]
    /\ UNCHANGED <<texts, metadatas, path_file, n_adds, last>>
    /\ RaceFrame

\* Line 66, continued: the value of "metadatas", and the file is closed.
DumpMetadatas(t) ==
    /\ thread[t].at = "write_metadatas"
    /\ thread' = [thread EXCEPT ![t].at = "replace",
                                ![t].tmp = DumpFile(thread[t].tmp.texts, metadatas)]
    /\ UNCHANGED <<texts, metadatas, path_file, n_adds, last>>
    /\ RaceFrame

RaceNext ==
    \E t \in Workers :
       \/ SaveBegins(t)
       \/ AddCheck(t)
       \/ AddPopTexts(t)
       \/ AddPopMetadatas(t)
       \/ AddIdx(t)
       \/ AddAppendText(t)
       \/ AddAppendMeta(t)
       \/ AutoSaveTrim(t)
       \/ Mkstemp(t)
       \/ DumpTexts(t)
       \/ DumpMetadatas(t)
       \/ Replace(t)
       \/ PersistFails(t)

RaceSpec == RaceInit /\ [][RaceNext]_vars

\* Whether the lists tx and ms are parallel: as long as each other, the
\* metadata at every index that of the add call whose text is there.
Parallel(tx, ms) ==
    /\ Len(tx) = Len(ms)
    /\ \A i \in 1..Len(tx) : ms[i].call = tx[i]

\* The add calls that have appended their text.
Appended == {id \in 1..n_adds :
               \A t \in Workers : thread[t].call = id =>
                                     thread[t].at \notin AddSteps \ {"append_meta"}}

\* C34: once every add call made by the background saves has returned, the
\* two lists are as long as each other, every index holds the text and the
\* metadata of the same add call, and a record that was appended and is no
\* longer there left a store that is full.
C34_ConcurrentAdds ==
    (\A t \in Workers : thread[t].at \notin AddSteps) =>
        /\ Parallel(texts, metadatas)
        /\ \A id \in Appended :
              (\A i \in 1..Len(texts) : texts[i] # id) => Len(texts) >= max_items

\* C35: every file persist() has put at the store path holds parallel lists.
C35_PersistedConsistent ==
    path_file.state = "complete" => Parallel(path_file.texts, path_file.metadatas)

\* The positions in the index of the vectors that embed the text of add
\* call id.
VectorsOf(id) == {i \in 1..Len(index) : index[i].call = id}

\* C36: in the similarity backend, in a process that has added and trimmed
\* records, the ids of the vectors in the index are pairwise distinct, the
\* vector of every stored record has the record's position as its id, and a
\* vector whose id is a position of the lists (a possible search hit) embeds
\* the text at that position.
C36_IndexAligned ==
    (backend = "faiss" /\ ~restarted) =>
        /\ \A i, j \in 1..Len(index) : index[i].id = index[j].id => i = j
        /\ \A p \in 1..Len(texts) : \A i \in VectorsOf(texts[p]) : index[i].id = p - 1
        /\ \A i \in 1..Len(index) :
              index[i].id < Len(texts) => texts[index[i].id + 1] = index[i].call

\* ------------------------------------------- the save of a turn alone

\* Texts are sequences of pieces here. None, as an argument:
NoText == <<"None (NoneType)">>

\* The length of a piece as the patterns of _SENSITIVE_PATTERNS count it: the
\* characters of a value that follows a keyword and its separator.
ValueLen(piece) ==
    CASE piece = "abc" -> 3
      [] piece = "abcd" -> 4
      [] piece = "abcd1234" -> 8
      [] OTHER -> 0

\* {8,} of lines 22-23 and {4,} of line 24.
KeyMinLen == 8
PasswordMinLen == 4

\* n = min(10, len(mem.texts)), line 51.
RecentWindow == 10

\* _contains_sensitive, lines 29-35, over _SENSITIVE_PATTERNS (lines 21-27):
\* a keyword with its separator followed by a long enough value, or the
\* first line of a private key.
contains_sensitive(text) ==
    /\ text # NoText
    /\ text # << >>
    /\ \E i \in 1..Len(text) :
          \/ /\ text[i] \in {"api_key:", "secret="}
             /\ i < Len(text)
             /\ ValueLen(text[i + 1]) >= KeyMinLen
          \/ /\ text[i] = "password="
             /\ i < Len(text)
             /\ ValueLen(text[i + 1]) >= PasswordMinLen
          \/ text[i] = "-----BEGIN RSA KEY-----"

\* _short_hash, lines 37-38: the first ten hex digits of the SHA-1 of the
\* text, written as the text it is the digest of (two different texts with
\* the same ten digits are left out).
short_hash(text) == [sha1 |-> text]

\* What _should_save answered, or that it raised.
Answer(value) == [raised |-> FALSE, value |-> value]
Raised == [raised |-> TRUE, value |-> FALSE]

\* Variant: only the user text is looked at for sensitive content.
ShouldSaveUserOnly(user_text, assistant_text) ==
    IF mode = "off" THEN Answer(FALSE)
    ELSE IF contains_sensitive(user_text) THEN Answer(FALSE)
    ELSE IF mode = "on_change"
       THEN IF backend = "none" THEN Answer(TRUE)
            ELSE IF user_text = NoText THEN Raised
            ELSE LET last_hash == short_hash(user_text \o <<"\n">> \o assistant_text)
                     n == Min(RecentWindow, Len(texts))
                 IN  Answer(~ \E i \in 1..n :
                                short_hash(texts[Len(texts) - i + 1]) = last_hash)
       ELSE Answer(TRUE)

\* _should_save, lines 40-62. In mode on_change the digest of
\* user_text + "\n" + assistant_text is compared with the digests of the last
\* min(10, len) stored texts; user_text None raises at line 50.
should_save(user_text, assistant_text) ==
    IF mode = "off" THEN Answer(FALSE)
    ELSE IF contains_sensitive(user_text) \/ contains_sensitive(assistant_text)
       THEN Answer(FALSE)
    ELSE IF mode = "on_change"
       THEN IF backend = "none" THEN Answer(TRUE)
            ELSE IF user_text = NoText THEN Raised
            ELSE LET last_hash == short_hash(user_text \o <<"\n">> \o assistant_text)
                     n == Min(RecentWindow, Len(texts))
                 IN  Answer(~ \E i \in 1..n :
                                short_hash(texts[Len(texts) - i + 1]) = last_hash)
       ELSE Answer(TRUE)

\* assistant_text or "" (lines 95, 104).
OrEmpty(text) == IF text = NoText THEN << >> ELSE text

\* _maybe_summarize, lines 64-70, for the texts looked at here, all shorter
\* than MIN_LENGTH_TO_SUMMARIZE: text[:1000] (text[:3000]) is the text.
maybe_summarize(text) == text

\* Lines 104-105: the text that is stored for a turn.
StoredText(user_text, assistant_text) ==
    maybe_summarize(<<"User: ">>
                    \o (IF user_text = NoText THEN <<"None">> ELSE user_text)
                    \o <<"\nAssistant: ">> \o OrEmpty(assistant_text))

\* What a call of auto_save_turn was given and what it did: idx is what it
\* returned (-1 for None), raised whether an exception left it, persist_called
\* whether it called mem.persist().
TurnReturn(user_text, assistant_text, idx, persist_called) ==
    [op |-> "auto_save_turn", user_text |-> user_text,
     assistant_text |-> assistant_text, idx |-> idx, raised |-> FALSE,
     persist_called |-> persist_called]

\* The texts of the turns saved: plain ones, None, and ones with a keyword
\* and a value at or under the length its pattern asks for.
UserTexts ==
    {<<"hi">>, NoText, <<"api_key:", "abcd1234">>, <<"password=", "abc">>}

AssistantTexts ==
    {<<"ok">>, NoText, <<"my ", "password=", "abcd">>, <<"secret=", "abcd1234">>,
     <<"-----BEGIN RSA KEY-----">>}

TurnInit ==
    /\ DispatcherUnused("store")
    /\ SessionUnused
    /\ FetchUnused
    /\ backend \in {"json", "none"}
    /\ mode \in {"always", "on_change", "off"}
    /\ max_items \in 1..MaxItems
    /\ texts = << >>
    /\ metadatas = << >>
    /\ ntotal = 0
    /\ index = << >>
    /\ path_file = NoFile
    /\ idx_file = NoFile
    /\ thread = [t \in Threads |-> IdleThread]
    /\ n_adds = 0
    /\ restarted = FALSE
    /\ last = NoReturn

\* auto_save_turn, lines 88-129, start to end: the turn is not worth saving,
\* or there is no store, or an exception is caught (line 127), and None is
\* returned; or the turn is added, the store trimmed and persisted (persist
\* answering True or False), and the index is returned.
AutoSaveTurn(user_text, assistant_text) ==
    LET s == should_save(user_text, OrEmpty(assistant_text))
        a == JsonMemoryFallback_add(texts, metadatas, max_items,
                                    StoredText(user_text, assistant_text), "turn")
        trimmed == trim_memory_if_needed(a.texts, a.metadatas, MAX_MEMORY_ITEMS)
    IN  /\ n_adds < MaxAdds
        /\ IF s.raised \/ ~s.value \/ backend = "none"
              THEN /\ last' = TurnReturn(user_text, assistant_text, -1, FALSE)
                   /\ UNCHANGED <<texts, metadatas, path_file, n_adds>>
              ELSE /\ texts' = trimmed.texts
                   /\ metadatas' = trimmed.metadatas
                   /\ n_adds' = n_adds + 1
                   /\ path_file' \in {DumpFile(texts', metadatas'), path_file}
                   /\ last' = TurnReturn(user_text, assistant_text, a.idx, TRUE)
        /\ UNCHANGED <<dispatch_vars, session_vars, fetch, backend, mode, max_items,
                       ntotal, index, idx_file, thread, restarted>>

TurnNext == \E user_text \in UserTexts, assistant_text \in AssistantTexts :
               AutoSaveTurn(user_text, assistant_text)

TurnSpec == TurnInit /\ [][TurnNext]_vars

\* The positions of the RecentWindow most recent records.
Recent == {i \in 1..Len(texts) : i > Len(texts) - RecentWindow}

\* C37: in mode on_change, a call of auto_save_turn for a turn whose stored
\* text is among the 10 most recent records returns None and adds nothing.
C37_DuplicateSuppressed ==
    [][ ( /\ mode = "on_change"
          /\ backend = "json"
          /\ last'.op = "auto_save_turn"
          /\ \E i \in Recent :
                texts[i] = StoredText(last'.user_text, last'.assistant_text) )
        => /\ last'.idx = -1
           /\ texts' = texts
           /\ metadatas' = metadatas ]_vars

\* The texts that hold an API key, a secret, a password or a private key.
SensitiveTexts ==
    {<<"api_key:", "abcd1234">>, <<"my ", "password=", "abcd">>,
     <<"secret=", "abcd1234">>, <<"-----BEGIN RSA KEY-----">>}

\* C39: a call of auto_save_turn made with auto-save off, or with a user or
\* assistant text that holds an API key, a secret, a password or a private
\* key, returns None, leaves texts, metadatas and the persistence file as
\* they were and does not call persist; and no call of auto_save_turn raises.
C39_SuppressedSaves ==
    /\ [][ ( /\ last'.op = "auto_save_turn"
             /\ \/ mode = "off"
                \/ last'.user_text \in SensitiveTexts
                \/ last'.assistant_text \in SensitiveTexts )
           => /\ last'.idx = -1
              /\ ~last'.persist_called
              /\ texts' = texts
              /\ metadatas' = metadatas
              /\ path_file' = path_file ]_vars
    /\ [](last.op = "auto_save_turn" => ~last.raised)

\* A store that holds a persisted record, and a call with a plain user text
\* and a secret in the assistant text that has returned None.
C39_Witness ==
    /\ mode = "always"
    /\ texts # << >>
    /\ path_file = DumpFile(texts, metadatas)
    /\ last.op = "auto_save_turn"
    /\ last.user_text = <<"hi">>
    /\ last.assistant_text = <<"secret=", "abcd1234">>
    /\ last.idx = -1

\* --------------------------- the tools of the store and the turn saves

\* The main thread runs the tools SavePersona, SaveMemory and ListPersonas
\* (a tool call of run_with_tools, or a slash command of the runner); the
\* worker runs the auto_save_turn of the turn before.

\* The text an operation adds: the add call it is the text of, and the
\* operation that wrote it.
TextOf(id, op) == [id |-> id, by |-> op]

PersonaInit ==
    /\ DispatcherUnused("store")
    /\ SessionUnused
    /\ FetchUnused
    /\ backend = "json"
    /\ mode = "always"
    /\ max_items \in 1..MaxItems
    /\ texts = << >>
    /\ metadatas = << >>
    /\ ntotal = 0
    /\ index = << >>
    /\ path_file = NoFile
    /\ idx_file = NoFile
    /\ thread = [t \in Threads |-> IdleThread]
    /\ n_adds = 0
    /\ restarted = FALSE
    /\ last = NoReturn

\* save_persona (src/tools.py lines 59-76), save_memory_tool (lines 140-151)
\* or auto_save_turn (memory_utils.py lines 93-115) enters mem.add.
SaveCallBegins(t, op) ==
    /\ thread[t].op = "idle"
    /\ n_adds < MaxAdds
    /\ n_adds' = n_adds + 1
    /\ thread' = [thread EXCEPT ![t] =
                    [IdleThread EXCEPT !.op = op, !.at = "add_check",
                                       !.call = TextOf(n_adds + 1, op)]]
    /\ UNCHANGED <<texts, metadatas, path_file, last>>
    /\ RaceFrame

\* The personas list_personas_tool collects, lines 193-197: over
\* zip(mem.texts, mem.metadatas), the pairs whose metadata has type persona.
RECURSIVE list_personas(_, _)
list_personas(tx, ms) ==
    IF tx = << >> \/ ms = << >> THEN << >>
    ELSE (IF Head(ms).kind = "persona" THEN <<Hit(Head(tx), Head(ms))>> ELSE << >>)
         \o list_personas(Tail(tx), Tail(ms))

\* list_personas_tool, src/tools.py lines 183-200.
ListPersonas(t) ==
    /\ thread[t].op = "idle"
    /\ last' = Return("list_personas", -1, FALSE, list_personas(texts, metadatas))
    /\ UNCHANGED <<texts, metadatas, path_file, n_adds, thread>>
    /\ RaceFrame

PersonaNext ==
    \/ \E op \in {"save_persona", "save_memory"} : SaveCallBegins("main", op)
    \/ SaveCallBegins("worker", "auto_save_turn")
    \/ ListPersonas("main")
    \/ AutoSaveTrim("worker")
    \/ \E t \in Threads :
          \/ AddCheck(t)
          \/ AddPopTexts(t)
          \/ AddPopMetadatas(t)
          \/ AddIdx(t)
          \/ AddAppendText(t)
          \/ AddAppendMeta(t)
          \/ Mkstemp(t)
          \/ DumpTexts(t)
          \/ DumpMetadatas(t)
          \/ Replace(t)
          \/ PersistFails(t)

PersonaSpec == PersonaInit /\ [][PersonaNext]_vars

\* C40: a call of ListPersonas returns, in stored order, the texts that
\* SavePersona wrote and that are still in the store, each with metadata of
\* type persona, and leaves the store as it was.
C40_ListPersonas ==
    [][ (last' # last /\ last'.op = "list_personas")
        => /\ [i \in 1..Len(last'.hits) |-> last'.hits[i].text]
                 = SelectSeq(texts, LAMBDA x : x.by = "save_persona")
           /\ \A i \in 1..Len(last'.hits) : last'.hits[i].meta.kind = "persona"
           /\ texts' = texts
           /\ metadatas' = metadatas
           /\ path_file' = path_file ]_vars

\* ------------------------------------ sessions whose turns are all saved

\* The sessions in which auto-save is on (mode always), there is a store, no
\* text is sensitive (auto_save_turn never returns None) and every input is
\* a plain one: no slash command, no persona in the input, no tool that
\* saves a record of its own.
SavingNext ==
    \/ NewInteraction
    \/ CliNoPersona
    \/ CliAnswer
    \/ RunnerSubmitCall
    \/ StartTask
    \/ CallReturns
    \/ CallRaises
    \/ CallTimesOut
    \/ OrphanReturns
    \/ SubmitSave
    \/ SaveWrites

\* The main thread goes on from the answer to the submit (straight-line
\* code), a free worker of the pool takes the oldest waiting task, and a
\* save that runs comes to its end. Nothing makes a model or tool call that
\* was given up return.
SavingSpec ==
    /\ SessionInit
    /\ [][SavingNext]_vars
    /\ WF_vars(SubmitSave)
    /\ WF_vars(StartTask)
    /\ WF_vars(SaveWrites)

\* The turn of interaction n has been answered.
Answered(n) == driver.turn = n /\ driver.at = "answered"

\* The record of type turn of interaction n is being written last, and no
\* other save of that interaction is left.
Saved(n) ==
    /\ wrote.turn = n
    /\ wrote.type = "turn"
    /\ TasksOf(pool, "save", n) = {}

\* No save is waiting or running, and the driver is past the submit of the
\* save of the interaction it answered last.
AllSaved ==
    /\ driver.at # "answered"
    /\ \A n \in 1..MaxTurns : TasksOf(pool, "save", n) = {}

\* C38: once an interaction has been answered, a time comes when its save
\* has been submitted and no save is left in the pool, whatever calls were
\* given up before and are still on their workers; the step that leaves the
\* answer submits exactly one save for the interaction, there is never more
\* than one save of an interaction, and a save leaves the pool only by
\* writing the record of type turn of its interaction (and such a record is
\* written by nothing else).
C38_EventualSave ==
    /\ (driver.at = "answered") ~> AllSaved
    /\ [][ /\ (driver.at = "answered" /\ driver'.at # "answered")
                 => /\ TasksOf(pool, "save", driver.turn) = {}
                    /\ Cardinality(TasksOf(pool', "save", driver.turn)) = 1
           /\ \A n \in 1..MaxTurns :
                 /\ Cardinality(TasksOf(pool', "save", n)) <= 1
                 /\ (TasksOf(pool, "save", n) # {} /\ TasksOf(pool', "save", n) = {})
                       => (wrote'.turn = n /\ wrote'.type = "turn")
                 /\ (wrote' # wrote /\ wrote'.type = "turn" /\ wrote'.turn = n)
                       => \E task \in pool.running \ pool'.running :
                             task.kind = "save" /\ task.turn = n ]_vars

\* The turn record of the last interaction has been written while three
\* calls that were given up still hold their workers.
C38_Witness ==
    /\ driver.turn = MaxTurns
    /\ Saved(MaxTurns)
    /\ Cardinality({task \in pool.running : task.kind \in {"agent", "llm"}}) = MaxWorkers - 1

====
